---- MODULE Spec2Model ----
(***************************************************************************)
(* Model of package validate of nielskrijger/goutils: the rule registry,   *)
(* the tag parser with its process-wide cache, the rule chain of Field and *)
(* the recursive walk of Struct.                                           *)
(*                                                                         *)
(* A Go string is a sequence of one-character strings.  A Go value is a    *)
(* record with a field "kind" (reflect.Kind) and the payload of that kind. *)
(***************************************************************************)
EXTENDS Integers, Sequences, FiniteSets, TLC

VARIABLES
    validators,     \* validators[id] : the Validator {tagName, rules, fullErrorPath, tagAliases}
    tagCache,       \* the package variable tagCache (sync.Map), string -> []Tag
    inflight,       \* inflight[g] : a mustParseTags call of goroutine g between Load and Store
    last,           \* the call that returned (or panicked) last, with what it did
    calls,          \* number of API calls made so far
    result          \* the ValidationResult the caller composes

vars == <<validators, tagCache, inflight, last, calls, result>>

----------------------------------------------------------------------------
(* Bounds of the model *)

\* API calls explored per behaviour
MaxCalls == 3

----------------------------------------------------------------------------
(* Strings *)

s_required == <<"r","e","q","u","i","r","e","d">>
s_optional == <<"o","p","t","i","o","n","a","l">>
s_gte      == <<"g","t","e">>
s_lte      == <<"l","t","e">>
s_aZ09     == <<"a","Z","0","9","_">>
s_username == <<"u","s","e","r","n","a","m","e">>
s_validate == <<"v","a","l","i","d","a","t","e">>
s_dash     == <<"-">>

Digits == {"0","1","2","3","4","5","6","7","8","9"}
UpperLetters == {"A","B","C","D","E","F","G","H","I","J","K","L","M","N","O","P","Q","R","S","T","U","V","W","X","Y","Z"}
LowerLetters == {"a","b","c","d","e","f","g","h","i","j","k","l","m","n","o","p","q","r","s","t","u","v","w","x","y","z"}

Min(S) == CHOOSE x \in S : \A y \in S : x <= y

\* Body applied to the value of e, e evaluated once: "r := e; Body(r)"
Let(e, Body(_)) == CHOOSE out \in {Body(r) : r \in {e}} : TRUE

\* strings.Trim(s, " ")
RECURSIVE TrimLeft(_)
TrimLeft(s) == IF s # <<>> /\ Head(s) = " " THEN TrimLeft(Tail(s)) ELSE s

RECURSIVE TrimRight(_)
TrimRight(s) ==
    IF s # <<>> /\ s[Len(s)] = " " THEN TrimRight(SubSeq(s, 1, Len(s) - 1)) ELSE s

Trim(s) == TrimRight(TrimLeft(s))

\* strings.ReplaceAll(s, `\,`, ",")
RECURSIVE ReplaceEscapedComma(_)
ReplaceEscapedComma(s) ==
    IF Len(s) < 2 THEN s
    ELSE IF s[1] = "\\" /\ s[2] = ","
         THEN <<",">> \o ReplaceEscapedComma(SubSeq(s, 3, Len(s)))
         ELSE <<s[1]>> \o ReplaceEscapedComma(Tail(s))

\* strings.SplitN(s, "=", 2)
SplitN2(s) ==
    LET eqs == {i \in 1..Len(s) : s[i] = "="}
    IN  IF eqs = {} THEN <<s>>
        ELSE <<SubSeq(s, 1, Min(eqs) - 1), SubSeq(s, Min(eqs) + 1, Len(s))>>

----------------------------------------------------------------------------
\* splitUnescapedComma and the regular expression sepPattern

\* number of consecutive backslashes of str from index p on
RECURSIVE BackslashRun(_, _)
BackslashRun(str, p) ==
    IF p <= Len(str) /\ str[p] = "\\" THEN 1 + BackslashRun(str, p + 1) ELSE 0

\* sepPattern matched with its first character at index s: the index of the
\* comma that ends the match, 0 when there is no match at s.  The match is
\* (start of text | one character that is no backslash), then pairs of
\* backslashes, then the comma.
sepPattern(str, s) ==
    LET atStart == IF s = 1
                   THEN LET n == BackslashRun(str, 1)
                        IN  IF n % 2 = 0 /\ n + 1 <= Len(str) /\ str[n + 1] = ","
                            THEN n + 1 ELSE 0
                   ELSE 0
        afterChar == IF s <= Len(str) /\ str[s] # "\\"
                     THEN LET n == BackslashRun(str, s + 1)
                          IN  IF n % 2 = 0 /\ s + 1 + n <= Len(str) /\ str[s + 1 + n] = ","
                              THEN s + 1 + n ELSE 0
                     ELSE 0
    IN  IF atStart # 0 THEN atStart ELSE afterChar

\* sepPattern.FindAllStringIndex(str, -1): the successive leftmost matches that
\* do not overlap, each given by the index of its comma
RECURSIVE FindAllStringIndex(_, _)
FindAllStringIndex(str, from) ==
    LET starts == {s \in from..Len(str) : sepPattern(str, s) # 0}
    IN  IF starts = {} THEN <<>>
        ELSE LET c == sepPattern(str, Min(starts))
             IN  <<c>> \o FindAllStringIndex(str, c + 1)

RECURSIVE Pieces(_, _, _)
Pieces(str, indexes, lst) ==
    IF indexes = <<>> THEN <<SubSeq(str, lst, Len(str))>>
    ELSE <<SubSeq(str, lst, Head(indexes) - 1)>> \o Pieces(str, Tail(indexes), Head(indexes) + 1)

splitUnescapedComma(str) == Pieces(str, FindAllStringIndex(str, 1), 1)

----------------------------------------------------------------------------
(* Go values, errors and panics *)

StringV(s) == [kind |-> "string", s |-> s]
IntV(n)    == [kind |-> "int", n |-> n]
UintV(n)   == [kind |-> "uint", n |-> n]
\* a float64 that is a whole number of halves: FloatV(5) is 2.5
FloatV(h)  == [kind |-> "float", h |-> h]
BoolV(b)   == [kind |-> "bool", b |-> b]
\* the nil interface{}: reflect.ValueOf(nil).Kind() is reflect.Invalid
NilV       == [kind |-> "invalid"]
NilPtr     == [kind |-> "ptr", isNil |-> TRUE]
PtrV(e)    == [kind |-> "ptr", isNil |-> FALSE, elem |-> e]
\* a struct field, element or map entry of an interface type
NilIface   == [kind |-> "interface", isNil |-> TRUE]
IfaceV(e)  == [kind |-> "interface", isNil |-> FALSE, elem |-> e]
SliceV(es) == [kind |-> "slice", elems |-> es]
ArrayV(es) == [kind |-> "array", elems |-> es]
\* a nil channel
ChanV      == [kind |-> "chan", isNil |-> TRUE]
\* a map, its entries <<key, value>> in the order this run iterates them
MapV(es)   == [kind |-> "map", elems |-> es]
\* a struct; each field is [Name, Tag, val], Tag the `validate:"..."` string
StructV(fs) == [kind |-> "struct", fields |-> fs]
StructField(name, tag, val) == [Name |-> name, Tag |-> tag, val |-> val]

\* the character e with acute accent, two bytes in UTF-8
c_eacute == "\\u00e9"
TwoByteChars == {c_eacute}

\* len(s) of a Go string: its number of bytes
RECURSIVE ByteLen(_)
ByteLen(s) ==
    IF s = <<>> THEN 0
    ELSE (IF Head(s) \in TwoByteChars THEN 2 ELSE 1) + ByteLen(Tail(s))

\* reflect.Value.Interface() followed by reflect.ValueOf: an interface value
\* gives what it holds, the nil interface has no kind
Interface(v) ==
    IF v.kind = "interface" THEN (IF v.isNil THEN NilV ELSE v.elem) ELSE v

\* the error values: nil, a FieldError, a FieldErrors
ErrNil == [type |-> "nil"]
FieldError(field, description) ==
    [type |-> "FieldError", Field |-> field, Description |-> description]
FieldErrors(errs) == [type |-> "FieldErrors", errs |-> errs]

\* a panic is its value; NoPanic when the call returns
NoPanic == <<>>
Panic(msg, arg) == <<msg, arg>>
\* fmt.Sprintf("unknown %s tag %q", mv.tagName, tg.Name)
UnknownTag(tagName, name) == Panic("unknown %s tag %q", <<tagName, name>>)

----------------------------------------------------------------------------
(* The standard checkers and error functions (rules.go) *)

\* value of a string of octal or decimal digits
RECURSIVE DigitsValue(_, _)
DigitsValue(s, base) ==
    IF s = <<>> THEN 0
    ELSE DigitsValue(SubSeq(s, 1, Len(s) - 1), base) * base
         + (CHOOSE d \in 0..9 : ToString(d) = s[Len(s)])

\* asInt: strconv.ParseInt(param, 0, 64) on an optional sign and digits (a
\* leading 0 makes the digits octal); anything else panics
asInt(param) ==
    LET signed == param # <<>> /\ Head(param) \in {"-", "+"}
        body   == IF signed THEN Tail(param) ELSE param
        octal  == Len(body) > 1 /\ Head(body) = "0"
        ok     == /\ body # <<>>
                  /\ \A i \in 1..Len(body) : body[i] \in Digits
                  /\ octal => \A i \in 1..Len(body) : body[i] \notin {"8", "9"}
    IN  IF ~ok THEN [panic |-> Panic("cannot cast %q to int", param), n |-> 0]
        ELSE Let(DigitsValue(body, IF octal THEN 8 ELSE 10), LAMBDA n :
                 [panic |-> NoPanic, n |-> IF Head(param) = "-" THEN 0 - n ELSE n])

\* asUint: strconv.ParseUint(param, 0, 64): digits without a sign
asUint(param) ==
    LET octal  == Len(param) > 1 /\ Head(param) = "0"
        ok     == /\ param # <<>>
                  /\ \A i \in 1..Len(param) : param[i] \in Digits
                  /\ octal => \A i \in 1..Len(param) : param[i] \notin {"8", "9"}
    IN  IF ~ok THEN [panic |-> Panic("cannot cast %q to uint", param), n |-> 0]
        ELSE [panic |-> NoPanic, n |-> DigitsValue(param, IF octal THEN 8 ELSE 10)]

\* asFloat: strconv.ParseFloat(param, 64) on an optional sign, decimal digits
\* and an optional fraction .0 or .5; the number in halves
asFloat(param) ==
    LET signed == param # <<>> /\ Head(param) \in {"-", "+"}
        body   == IF signed THEN Tail(param) ELSE param
        frac   == Len(body) > 2 /\ body[Len(body) - 1] = "."
        whole  == IF frac THEN SubSeq(body, 1, Len(body) - 2) ELSE body
        ok     == /\ whole # <<>>
                  /\ \A i \in 1..Len(whole) : whole[i] \in Digits
                  /\ frac => body[Len(body)] \in {"0", "5"}
    IN  IF ~ok THEN [panic |-> Panic("cannot cast %q to float", param), n |-> 0]
        ELSE Let(2 * DigitsValue(whole, 10)
                    + (IF frac /\ body[Len(body)] = "5" THEN 1 ELSE 0), LAMBDA h :
                 [panic |-> NoPanic, n |-> IF Head(param) = "-" THEN 0 - h ELSE h])

Returns(b) == [panic |-> NoPanic, ok |-> b]
Panics(p)  == [panic |-> p, ok |-> FALSE]

\* Required were it to take a struct without fields for empty
RequiredByFields(v) ==
    CASE v.kind = "string" -> Returns(ByteLen(v.s) # 0)
      [] v.kind \in {"ptr", "interface"} -> Returns(~v.isNil)
      [] v.kind \in {"slice", "map", "array"} -> Returns(Len(v.elems) # 0)
      [] v.kind = "int" -> Returns(v.n # 0)
      [] v.kind = "uint" -> Returns(v.n # 0)
      [] v.kind = "float" -> Returns(v.h # 0)
      [] v.kind = "bool" -> Returns(v.b)
      [] v.kind = "invalid" -> Returns(FALSE)
      [] v.kind = "struct" -> Returns("fields" \in DOMAIN v /\ v.fields # <<>>)
      [] OTHER -> Returns(FALSE)

Required(v) ==
    CASE v.kind = "string" -> Returns(ByteLen(v.s) # 0)
      [] v.kind \in {"ptr", "interface"} -> Returns(~v.isNil)
      [] v.kind \in {"slice", "map", "array"} -> Returns(Len(v.elems) # 0)
      [] v.kind = "int" -> Returns(v.n # 0)
      [] v.kind = "uint" -> Returns(v.n # 0)
      [] v.kind = "float" -> Returns(v.h # 0)
      [] v.kind = "bool" -> Returns(v.b)
      [] v.kind = "invalid" -> Returns(FALSE)
      [] v.kind = "struct" -> Returns(TRUE)
      [] OTHER -> Returns(FALSE)

Optional(v) == Required(v)

\* what GTE and LTE compare with the parameter: len of a string, the number of
\* elements, the number itself (a float in halves)
Measured(v) ==
    CASE v.kind = "string" -> ByteLen(v.s)
      [] v.kind \in {"slice", "map", "array"} -> Len(v.elems)
      [] v.kind \in {"int", "uint"} -> v.n
      [] v.kind = "float" -> v.h

\* the parameter as GTE and LTE read it for a value of this kind (asFloat in halves)
Bound(v, param) ==
    CASE v.kind = "uint" -> asUint(param)
      [] v.kind = "float" -> asFloat(param)
      [] OTHER -> asInt(param)

GTE(v, param) ==
    IF v.kind \notin {"string", "slice", "map", "array", "int", "uint", "float"}
    THEN Panics(Panic("invalid type for gte tag", <<>>))
    ELSE Let(Bound(v, param), LAMBDA p :
             IF p.panic # NoPanic THEN Panics(p.panic) ELSE Returns(Measured(v) >= p.n))

LTE(v, param) ==
    IF v.kind \notin {"string", "slice", "map", "array", "int", "uint", "float"}
    THEN Panics(Panic("invalid type for lte tag", <<>>))
    ELSE Let(Bound(v, param), LAMBDA p :
             IF p.panic # NoPanic THEN Panics(p.panic) ELSE Returns(Measured(v) <= p.n))

\* regexpAZ09 = ^[a-zA-Z0-9][a-zA-Z0-9_]*$
regexpAZ09(s) ==
    LET alnum == Digits \cup UpperLetters \cup LowerLetters
    IN  /\ s # <<>>
        /\ s[1] \in alnum
        /\ \A i \in 1..Len(s) : s[i] \in alnum \cup {"_"}

\* RegexChecker for regexpAZ09: every element of a slice, or the string
RECURSIVE RegexChecker(_, _)
RegexChecker(tagName, v) ==
    CASE v.kind \in {"array", "slice"} ->
            IF v.elems = <<>> THEN Returns(TRUE)
            ELSE Let(RegexChecker(tagName, Interface(Head(v.elems))), LAMBDA h :
                     IF h.panic # NoPanic \/ ~h.ok THEN h
                     ELSE RegexChecker(tagName, SliceV(Tail(v.elems))))
      [] v.kind = "string" -> Returns(v.s = <<>> \/ regexpAZ09(v.s))
      [] OTHER -> Panics(Panic("invalid type for %s tag", tagName))

AZ09(v) == RegexChecker(s_aZ09, v)

\* validGenders
validGenders == << <<"m", "a", "l", "e">>, <<"f", "e", "m", "a", "l", "e">>,
                   <<"g", "e", "n", "d", "e", "r", "q", "u", "e", "e", "r">> >>

Gender(v) ==
    IF v.kind # "string" THEN Panics(Panic("invalid type for gender tag", <<>>))
    ELSE Returns(v.s = <<>> \/ \E i \in 1..Len(validGenders) : validGenders[i] = v.s)

\* The instants of a day that the model tells apart: 0 is 00:00:00
\* exactly, 1 is any later instant of that day.  A time.Time is the number
\* of its instant, counted from the first instant of day 0.
TimesOfDay == {0, 1}
Instant(day, tod) == day * Cardinality(TimesOfDay) + tod
DayOf(t) == t \div Cardinality(TimesOfDay)

\* a time.Time value, a struct
TimeV(t) == [kind |-> "struct", isTime |-> TRUE, t |-> t]
\* v.(time.Time) succeeds
IsTime(v) == v.kind = "struct" /\ "isTime" \in DOMAIN v

\* InvalidTime = time.Unix(0, 0)
InvalidTime == TimeV(Instant(0, 0))

\* "now"
s_now == <<"n", "o", "w">>

\* the text 2024-01-DD of day DD
DateString(day) ==
    <<"2", "0", "2", "4", "-", "0", "1", "-">>
        \o <<ToString(day \div 10), ToString(day % 10)>>

\* time.Parse("2006-01-02", s), for the dates of January 2024: day DD is
\* day DD of the model
timeParse(s) ==
    IF /\ Len(s) = 10
       /\ SubSeq(s, 1, 8) = <<"2", "0", "2", "4", "-", "0", "1", "-">>
       /\ s[9] \in Digits /\ s[10] \in Digits
       /\ DigitsValue(SubSeq(s, 9, 10), 10) \in 1..31
    THEN [ok |-> TRUE, t |-> Instant(DigitsValue(SubSeq(s, 9, 10), 10), 0)]
    ELSE [ok |-> FALSE, t |-> 0]

isWholeDate(t) == t % Cardinality(TimesOfDay) = 0

\* parseDate, time.Now().UTC() being now: the instant itself for "now", the
\* first instant of the day for a date
parseDate(date, now) ==
    IF date = s_now THEN [panic |-> NoPanic, t |-> now]
    ELSE Let(timeParse(date), LAMBDA d :
             IF ~d.ok THEN [panic |-> Panic("parsing time %q", date), t |-> 0]
             ELSE [panic |-> NoPanic, t |-> Instant(DayOf(d.t), 0)])

\* "st": the value, or what a non-nil pointer points to
Pointee(v) == IF v.kind = "ptr" /\ ~v.isNil THEN Interface(v.elem) ELSE v

ISODate(v) ==
    IF v.kind = "ptr" /\ v.isNil THEN Returns(TRUE)
    ELSE CASE Pointee(v).kind = "string" ->
                 IF Pointee(v).s = <<>> THEN Returns(TRUE)
                 ELSE Let(timeParse(Pointee(v).s), LAMBDA d :
                          Returns(d.ok /\ isWholeDate(d.t)))
           [] Pointee(v).kind = "struct" ->
                 IF IsTime(v) THEN Returns(v # InvalidTime /\ isWholeDate(v.t))
                 ELSE Returns(FALSE)
           [] OTHER -> Panics(Panic("invalid type for isodate tag", <<>>))

\* the comparison of MinDate and of MaxDate of the instant t with the date of
\* the parameter
dateCompare(after, t, param, now) ==
    Let(parseDate(param, now), LAMBDA d :
        IF d.panic # NoPanic THEN Panics(d.panic)
        ELSE Returns(IF after THEN t >= d.t ELSE t <= d.t))

\* MinDate (after) and MaxDate (not after) are the same function but for the
\* comparison and the tag name in the panic
minMaxDate(after, tagName, v, param, now) ==
    IF v.kind = "ptr" /\ v.isNil THEN Returns(TRUE)
    ELSE CASE Pointee(v).kind = "string" ->
                 IF Pointee(v).s = <<>> THEN Returns(TRUE)
                 ELSE Let(timeParse(Pointee(v).s), LAMBDA t :
                          IF ~t.ok THEN Returns(FALSE)
                          ELSE dateCompare(after, t.t, param, now))
           [] Pointee(v).kind = "struct" ->
                 IF IsTime(v) THEN dateCompare(after, v.t, param, now)
                 ELSE Returns(FALSE)
           [] OTHER -> Panics(Panic("invalid type for %s tag", tagName))

MinDate(v, param, now) == minMaxDate(TRUE, <<"m", "i", "n", "d", "a", "t", "e">>, v, param, now)
MaxDate(v, param, now) == minMaxDate(FALSE, <<"m", "a", "x", "d", "a", "t", "e">>, v, param, now)

\* RuleChecker: the checker function a rule holds, applied
Checker(fn, v, param) ==
    CASE fn = "Required" -> Required(v)
      [] fn = "Optional" -> Optional(v)
      [] fn = "GTE" -> GTE(v, param)
      [] fn = "LTE" -> LTE(v, param)
      [] fn = "AZ09" -> AZ09(v)

\* RuleErrorFunc: the message function a rule holds, applied.  A message is
\* the field name and the parameter spliced into the format's literal text.
ErrorFunc(fn, field, v, t) ==
    CASE fn = "RequiredErr" -> field \o <<" is required">>
      [] fn = "GTEErr" ->
            (CASE v.kind \in {"slice", "map", "array"} ->
                    field \o <<" must contain at least ">> \o t.Param \o <<" elements">>
               [] v.kind = "string" ->
                    field \o <<" must be at least ">> \o t.Param \o <<" characters long">>
               [] OTHER -> field \o <<" must be at least ">> \o t.Param)
      [] fn = "LTEErr" ->
            (CASE v.kind \in {"slice", "map", "array"} ->
                    field \o <<" may not contain more than ">> \o t.Param \o <<" elements">>
               [] v.kind = "string" ->
                    field \o <<" must be at most ">> \o t.Param \o <<" characters long">>
               [] OTHER -> field \o <<" maximum value is ">> \o t.Param)
      [] fn = "AZ09Err" -> field \o <<" must contain 0-9, A-Z, _ and not start with a _">>

ValidationRule(tag, checker, errorFunc) ==
    [Tag |-> tag, Checker |-> checker, ErrorFunc |-> errorFunc]

\* the rules of StandardRules that the declarations of this model name
StandardRules == <<
    ValidationRule(s_required, "Required", "RequiredErr"),
    ValidationRule(s_optional, "Optional", "nil"),
    ValidationRule(s_gte, "GTE", "GTEErr"),
    ValidationRule(s_lte, "LTE", "LTEErr"),
    ValidationRule(s_aZ09, "AZ09", "AZ09Err") >>

\* "aZ09_,gte=4,lte=20"
d_username == s_aZ09 \o <<",">> \o s_gte \o <<"=", "4", ",">> \o s_lte \o <<"=", "2", "0">>

\* the alias of StandardAliases whose rules are modelled
StandardAliases == <<[alias |-> s_username, tags |-> d_username]>>

----------------------------------------------------------------------------
(* The tag parser and the rule chain (validator.go) *)

\* Tag{Name, Rule, Param}
Tag(name, rule, param) == [Name |-> name, Rule |-> rule, Param |-> param]

\* what one call has done so far: the tag cache as it leaves it, the checkers
\* it invoked, the tag lists mustParseTags gave it, and its panic if it panicked
Env(cache) == [cache |-> cache, invoked |-> <<>>, parsed |-> <<>>, panic |-> NoPanic]

\* the loop of mustParseTags over the pieces tl of the declaration: a name is
\* looked up in the rules, then in the aliases, whose tags are spliced in
RECURSIVE parseSpecs(_, _)
parseSpecs(mv, tl) ==
    IF tl = <<>> THEN [panic |-> NoPanic, tags |-> <<>>]
    ELSE Let(SplitN2(ReplaceEscapedComma(Head(tl))), LAMBDA v :
         Let(Trim(v[1]), LAMBDA name :
             IF name = <<>> \/ (name \notin DOMAIN mv.rules /\ name \notin DOMAIN mv.tagAliases)
             THEN [panic |-> UnknownTag(mv.tagName, name), tags |-> <<>>]
             ELSE Let(parseSpecs(mv, Tail(tl)), LAMBDA rest :
                      [panic |-> rest.panic,
                       tags  |-> (IF name \in DOMAIN mv.rules
                                  THEN <<Tag(name, mv.rules[name],
                                             IF Len(v) > 1 THEN Trim(v[2]) ELSE <<>>)>>
                                  ELSE mv.tagAliases[name]) \o rest.tags])))

\* tagCache.Store(t, tags)
Store(cache, t, tags) == (t :> tags) @@ cache

\* mustParseTags: the cached tags of t, or t parsed against mv and cached
mustParseTags(mv, t, env) ==
    IF t \in DOMAIN env.cache
    THEN [tags |-> env.cache[t],
          env  |-> [env EXCEPT !.parsed = Append(@, <<t, env.cache[t]>>)]]
    ELSE Let(parseSpecs(mv, splitUnescapedComma(t)), LAMBDA r :
             IF r.panic # NoPanic
             THEN [tags |-> <<>>, env |-> [env EXCEPT !.panic = r.panic]]
             ELSE [tags |-> r.tags,
                   env  |-> [env EXCEPT !.cache = Store(@, t, r.tags),
                                        !.parsed = Append(@, <<t, r.tags>>)]])

\* the record of one checker invocation
Invocation(field, t) ==
    [field |-> field, Name |-> t.Name, Checker |-> t.Rule.Checker, Param |-> t.Param]

\* the loop of singleField were it not to return at a failure with an error
\* function: the first error is kept, the later checkers are invoked
RECURSIVE ruleChainNoReturn(_, _, _)
ruleChainNoReturn(tags, v, field) ==
    IF tags = <<>> THEN [panic |-> NoPanic, err |-> ErrNil, invoked |-> <<>>]
    ELSE Let(Checker(Head(tags).Rule.Checker, v, Head(tags).Param), LAMBDA c :
             IF c.panic # NoPanic \/ (~c.ok /\ Head(tags).Rule.ErrorFunc = "nil")
             THEN [panic |-> c.panic, err |-> ErrNil,
                   invoked |-> <<Invocation(field, Head(tags))>>]
             ELSE Let(ruleChainNoReturn(Tail(tags), v, field), LAMBDA rest :
                      [panic |-> rest.panic,
                       err |-> IF c.ok THEN rest.err
                               ELSE FieldError(field,
                                        ErrorFunc(Head(tags).Rule.ErrorFunc, field, v, Head(tags))),
                       invoked |-> <<Invocation(field, Head(tags))>> \o rest.invoked]))

\* the loop of singleField were a rule without error function only skipped:
\* the chain goes on after it
RECURSIVE ruleChainSkipsOptional(_, _, _)
ruleChainSkipsOptional(tags, v, field) ==
    IF tags = <<>> THEN [panic |-> NoPanic, err |-> ErrNil, invoked |-> <<>>]
    ELSE Let(Checker(Head(tags).Rule.Checker, v, Head(tags).Param), LAMBDA c :
             IF c.panic # NoPanic
             THEN [panic |-> c.panic, err |-> ErrNil,
                   invoked |-> <<Invocation(field, Head(tags))>>]
             ELSE IF ~c.ok /\ Head(tags).Rule.ErrorFunc # "nil"
             THEN [panic |-> NoPanic,
                   err |-> FieldError(field,
                               ErrorFunc(Head(tags).Rule.ErrorFunc, field, v, Head(tags))),
                   invoked |-> <<Invocation(field, Head(tags))>>]
             ELSE [ruleChainSkipsOptional(Tail(tags), v, field)
                      EXCEPT !.invoked = <<Invocation(field, Head(tags))>> \o @])

\* the loop of singleField over the tags
RECURSIVE ruleChain(_, _, _)
ruleChain(tags, v, field) ==
    IF tags = <<>> THEN [panic |-> NoPanic, err |-> ErrNil, invoked |-> <<>>]
    ELSE Let(Checker(Head(tags).Rule.Checker, v, Head(tags).Param), LAMBDA c :
             IF c.panic # NoPanic
             THEN [panic |-> c.panic, err |-> ErrNil,
                   invoked |-> <<Invocation(field, Head(tags))>>]
             ELSE IF ~c.ok
             THEN [panic |-> NoPanic,
                   err |-> IF Head(tags).Rule.ErrorFunc = "nil" THEN ErrNil
                           ELSE FieldError(field,
                                    ErrorFunc(Head(tags).Rule.ErrorFunc, field, v, Head(tags))),
                   invoked |-> <<Invocation(field, Head(tags))>>]
             ELSE [ruleChain(Tail(tags), v, field)
                      EXCEPT !.invoked = <<Invocation(field, Head(tags))>> \o @])

\* singleField: the tags of the declaration, then the rule chain
singleField(mv, v, field, tag, env) ==
    Let(mustParseTags(mv, tag, env), LAMBDA p :
        IF p.env.panic # NoPanic THEN [err |-> ErrNil, env |-> p.env]
        ELSE Let(ruleChain(p.tags, v, field), LAMBDA c :
                 [err |-> c.err,
                  env |-> [p.env EXCEPT !.invoked = @ \o c.invoked, !.panic = c.panic]]))

RECURSIVE Field(_, _, _, _, _)
Field(mv, val, field, tags, env) ==
    IF tags = s_dash THEN [err |-> ErrNil, env |-> env]
    ELSE IF val.kind = "ptr" /\ ~val.isNil
    THEN Field(mv, Interface(val.elem), field, tags, env)
    ELSE singleField(mv, val, field, tags, env)

----------------------------------------------------------------------------
(* The walk of Struct (validator.go) *)

\* string(rune(i)): the one character whose code point is i
RuneChars == <<"\\x00", "\\x01", "\\x02", "\\x03">>
Rune(i) == RuneChars[i + 1]

\* fmt.Sprintf("%+v", key) of a map key
RECURSIVE FormatFields(_, _)
FormatKey(k) ==
    CASE k.kind = "string" -> k.s
      [] k.kind = "int" -> <<ToString(k.n)>>
      [] k.kind = "struct" -> <<"{">> \o FormatFields(k.fields, 1) \o <<"}">>
      [] OTHER -> <<"?">>

\* the fields of a struct under %+v: name:value, separated by spaces
FormatFields(fs, i) ==
    IF i > Len(fs) THEN <<>>
    ELSE (IF i > 1 THEN <<" ">> ELSE <<>>) \o fs[i].Name \o <<":">>
         \o FormatKey(fs[i].val) \o FormatFields(fs, i + 1)

\* the loop "for f.Kind() == reflect.Ptr && !f.IsNil()" of validateStructFields
RECURSIVE Deref(_)
Deref(f) == IF f.kind = "ptr" /\ ~f.isNil THEN Deref(f.elem) ELSE f

\* the capital A with tilde, whose code point is 0xC3
c_Atilde == "\\u00c3"

\* rune(field[0]): the first byte of the name as a code point; the first byte
\* of a two-byte character of the model is 0xC3
FirstByteRune(field) == IF field[1] \in TwoByteChars THEN c_Atilde ELSE field[1]

\* unicode.IsUpper(rune(field[0])), the test of "only public fields are
\* validatable"
IsPublic(field) == FirstByteRune(field) \in UpperLetters \cup {c_Atilde}

\* the field is exported: the first character of its name is an upper case
\* letter; reflect lets Interface() be called on the values of exported
\* fields only
IsExported(field) == field[1] \in UpperLetters \cup {c_Atilde}

\* deepValidateTaglessField calls Interface() on the value or on a value in it
RECURSIVE CallsInterface(_)
CallsInterface(value) ==
    CASE value.kind = "struct" -> TRUE
      [] value.kind \in {"interface", "ptr"} -> ~value.isNil
      [] value.kind \in {"array", "slice"} ->
            \E i \in 1..Len(value.elems) : CallsInterface(value.elems[i])
      [] value.kind = "map" -> Len(value.elems) > 0
      [] OTHER -> FALSE

\* the panic of reflect.Value.Interface on the value of an unexported field
UnexportedPanic ==
    Panic("reflect.Value.Interface: cannot return value obtained from unexported field or method",
          <<>>)

\* the prefix loop of validateStruct were it to leave the field names as they are
prefixErrorsLeaf(fieldName, errs) == errs

\* the prefix loop of validateStruct
prefixErrors(fieldName, errs) ==
    [i \in 1..Len(errs) |->
        FieldError(fieldName \o <<".">> \o errs[i].Field, errs[i].Description)]

\* a walk that found nothing and did nothing
NoErrors(env) == [errs |-> <<>>, env |-> env]

RECURSIVE validateStruct(_, _, _, _)
RECURSIVE validateStructFields(_, _, _, _)
RECURSIVE validateStructField(_, _, _)
RECURSIVE deepValidateTaglessField(_, _, _, _)
RECURSIVE validateCollection(_, _, _, _, _)
RECURSIVE validateMap(_, _, _, _, _)

\* the loop body of validateStructFields were it to report what the walk
\* into the field's value finds before the field's own failure
validateStructFieldDeepFirst(mv, sf, env) ==
    IF ~IsPublic(sf.Name) \/ sf.Tag = s_dash THEN NoErrors(env)
    ELSE IF ~IsExported(sf.Name) /\ (sf.Tag # <<>> \/ CallsInterface(Deref(sf.val)))
    THEN NoErrors([env EXCEPT !.panic = UnexportedPanic])
    ELSE Let(IF sf.Tag # <<>>
             THEN Field(mv, Interface(Deref(sf.val)), sf.Name, sf.Tag, env)
             ELSE [err |-> ErrNil, env |-> env], LAMBDA own :
         Let(deepValidateTaglessField(mv, Deref(sf.val), sf.Name, own.env), LAMBDA deep :
             [errs |-> deep.errs \o (IF own.err # ErrNil THEN <<own.err>> ELSE <<>>),
              env  |-> deep.env]))

\* the loop body of validateStructFields were it to skip unexported fields only
validateStructFieldNoDash(mv, sf, env) ==
    IF ~IsPublic(sf.Name) THEN NoErrors(env)
    ELSE IF ~IsExported(sf.Name) /\ (sf.Tag # <<>> \/ CallsInterface(Deref(sf.val)))
    THEN NoErrors([env EXCEPT !.panic = UnexportedPanic])
    ELSE Let(IF sf.Tag # <<>>
             THEN Field(mv, Interface(Deref(sf.val)), sf.Name, sf.Tag, env)
             ELSE [err |-> ErrNil, env |-> env], LAMBDA own :
         Let(deepValidateTaglessField(mv, Deref(sf.val), sf.Name, own.env), LAMBDA deep :
             [errs |-> (IF own.err # ErrNil THEN <<own.err>> ELSE <<>>) \o deep.errs,
              env  |-> deep.env]))

\* validateStruct were it not to return at a nil pointer
validateStructIntoNil(mv, value, fieldName, env) ==
    IF env.panic # NoPanic THEN NoErrors(env)
    ELSE IF value.kind = "ptr" /\ ~value.isNil
    THEN Let(validateStruct(mv, Interface(value.elem), fieldName, env), LAMBDA r :
             IF r.env.panic # NoPanic \/ Len(r.errs) = 0 THEN NoErrors(r.env)
             ELSE IF ~mv.fullErrorPath \/ fieldName = <<>> THEN r
             ELSE [errs |-> prefixErrors(fieldName, r.errs), env |-> r.env])
    ELSE IF value.kind # "struct"
    THEN NoErrors([env EXCEPT !.panic =
                      Panic("reflect: call of reflect.Value.NumField on %s Value", value.kind)])
    ELSE Let(validateStructFields(mv, value, 1, env), LAMBDA r :
             IF r.env.panic # NoPanic \/ Len(r.errs) = 0 THEN NoErrors(r.env)
             ELSE IF ~mv.fullErrorPath \/ fieldName = <<>> THEN r
             ELSE [errs |-> prefixErrors(fieldName, r.errs), env |-> r.env])

validateStruct(mv, value, fieldName, env) ==
    IF env.panic # NoPanic THEN NoErrors(env)
    ELSE IF value.kind = "ptr" /\ value.isNil THEN NoErrors(env)
    ELSE IF value.kind = "ptr"
    THEN Let(validateStruct(mv, Interface(value.elem), fieldName, env), LAMBDA r :
             IF r.env.panic # NoPanic \/ Len(r.errs) = 0 THEN NoErrors(r.env)
             ELSE IF ~mv.fullErrorPath \/ fieldName = <<>> THEN r
             ELSE [errs |-> prefixErrors(fieldName, r.errs), env |-> r.env])
    ELSE IF value.kind # "struct"
    THEN NoErrors([env EXCEPT !.panic =
                      Panic("reflect: call of reflect.Value.NumField on %s Value", value.kind)])
    ELSE Let(validateStructFields(mv, value, 1, env), LAMBDA r :
             IF r.env.panic # NoPanic \/ Len(r.errs) = 0 THEN NoErrors(r.env)
             ELSE IF ~mv.fullErrorPath \/ fieldName = <<>> THEN r
             ELSE [errs |-> prefixErrors(fieldName, r.errs), env |-> r.env])

\* the loop of validateStructFields for the fields i, i+1, ...
validateStructFields(mv, sv, i, env) ==
    IF env.panic # NoPanic \/ i > Len(sv.fields) THEN NoErrors(env)
    ELSE Let(validateStructField(mv, sv.fields[i], env), LAMBDA one :
         Let(validateStructFields(mv, sv, i + 1, one.env), LAMBDA rest :
             [errs |-> one.errs \o rest.errs, env |-> rest.env]))

\* the body of that loop for the field sf: fields that are not public by the
\* test of the loop and "-" fields are skipped, the field's own tags run, then
\* the walk goes into its value
validateStructField(mv, sf, env) ==
    IF ~IsPublic(sf.Name) \/ sf.Tag = s_dash THEN NoErrors(env)
    ELSE IF ~IsExported(sf.Name) /\ (sf.Tag # <<>> \/ CallsInterface(Deref(sf.val)))
    THEN NoErrors([env EXCEPT !.panic = UnexportedPanic])
    ELSE Let(IF sf.Tag # <<>>
             THEN Field(mv, Interface(Deref(sf.val)), sf.Name, sf.Tag, env)
             ELSE [err |-> ErrNil, env |-> env], LAMBDA own :
         Let(deepValidateTaglessField(mv, Deref(sf.val), sf.Name, own.env), LAMBDA deep :
             [errs |-> (IF own.err # ErrNil THEN <<own.err>> ELSE <<>>) \o deep.errs,
              env  |-> deep.env]))

deepValidateTaglessField(mv, value, field, env) ==
    IF env.panic # NoPanic THEN NoErrors(env)
    ELSE CASE value.kind \in {"interface", "ptr"} ->
                IF value.isNil THEN NoErrors(env)
                ELSE validateStruct(mv, Interface(value), field, env)
           [] value.kind = "struct" -> validateStruct(mv, value, field, env)
           [] value.kind \in {"array", "slice"} -> validateCollection(mv, value, field, 0, env)
           [] value.kind = "map" -> validateMap(mv, value, field, 1, env)
           [] OTHER -> NoErrors(env)

\* the loop of validateCollection for the elements i, i+1, ... (i from 0)
validateCollection(mv, value, field, i, env) ==
    IF env.panic # NoPanic \/ i >= Len(value.elems) THEN NoErrors(env)
    ELSE Let(deepValidateTaglessField(mv, value.elems[i + 1],
                 field \o <<"[", Rune(i), "]">>, env), LAMBDA one :
         Let(validateCollection(mv, value, field, i + 1, one.env), LAMBDA rest :
             [errs |-> one.errs \o rest.errs, env |-> rest.env]))

\* validateMap were it to look at one entry only, the first of this run's order
validateMapFirstEntryOnly(mv, value, field, i, env) ==
    IF env.panic # NoPanic \/ i > Len(value.elems) THEN NoErrors(env)
    ELSE Let(field \o <<"[">> \o FormatKey(Interface(value.elems[i][1])) \o <<"]">>,
             LAMBDA name :
         Let(deepValidateTaglessField(mv, value.elems[i][1], name \o <<"(key)">>, env),
             LAMBDA k :
         Let(deepValidateTaglessField(mv, value.elems[i][2], name \o <<"(value)">>, k.env),
             LAMBDA v :
             [errs |-> k.errs \o v.errs, env |-> v.env])))

\* the loop of validateMap for the entries i, i+1, ... of this run's key order
validateMap(mv, value, field, i, env) ==
    IF env.panic # NoPanic \/ i > Len(value.elems) THEN NoErrors(env)
    ELSE Let(field \o <<"[">> \o FormatKey(Interface(value.elems[i][1])) \o <<"]">>,
             LAMBDA name :
         Let(deepValidateTaglessField(mv, value.elems[i][1], name \o <<"(key)">>, env),
             LAMBDA k :
         Let(deepValidateTaglessField(mv, value.elems[i][2], name \o <<"(value)">>, k.env),
             LAMBDA v :
         Let(validateMap(mv, value, field, i + 1, v.env), LAMBDA rest :
             [errs |-> k.errs \o v.errs \o rest.errs, env |-> rest.env]))))

\* Validator.Struct: the error it returns, nil when there is no failure
Struct(mv, value, env) ==
    Let(validateStruct(mv, value, <<>>, env), LAMBDA r :
        [err |-> IF Len(r.errs) > 0 THEN FieldErrors(r.errs) ELSE ErrNil, env |-> r.env])

----------------------------------------------------------------------------
(* The registry (validator.go) *)

EmptyMap == [x \in {} |-> x]

\* Validator.AddRule
AddRule(mv, rule) == [mv EXCEPT !.rules = (rule.Tag :> rule) @@ @]

\* Validator.AddAlias: mustParseTags runs first; the table is assigned only
\* when it returns
AddAlias(mv, alias, tags, env) ==
    Let(mustParseTags(mv, tags, env), LAMBDA p :
        IF p.env.panic # NoPanic THEN [mv |-> mv, env |-> p.env]
        ELSE [mv |-> [mv EXCEPT !.tagAliases = (alias :> p.tags) @@ @], env |-> p.env])

RECURSIVE WithStandardRules(_, _)
WithStandardRules(mv, i) ==
    IF i > Len(StandardRules) THEN mv
    ELSE WithStandardRules(AddRule(mv, StandardRules[i]), i + 1)

RECURSIVE WithStandardAliases(_, _, _)
WithStandardAliases(mv, i, env) ==
    IF i > Len(StandardAliases) \/ env.panic # NoPanic THEN [mv |-> mv, env |-> env]
    ELSE Let(AddAlias(mv, StandardAliases[i].alias, StandardAliases[i].tags, env), LAMBDA a :
             WithStandardAliases(a.mv, i + 1, a.env))

WithFullErrorPath(mv) == [mv EXCEPT !.fullErrorPath = TRUE]

\* one ValidatorOption applied to mv
applyOption(option, mv, env) ==
    CASE option = "WithFullErrorPath" -> [mv |-> WithFullErrorPath(mv), env |-> env]
      [] option = "WithStandardRules" -> [mv |-> WithStandardRules(mv, 1), env |-> env]
      [] option = "WithStandardAliases" -> WithStandardAliases(mv, 1, env)

\* the loop of NewValidator over the options, from option i on
RECURSIVE applyOptions(_, _, _, _)
applyOptions(mv, options, i, env) ==
    IF i > Len(options) \/ env.panic # NoPanic THEN [mv |-> mv, env |-> env]
    ELSE Let(applyOption(options[i], mv, env), LAMBDA a :
             applyOptions(a.mv, options, i + 1, a.env))

NewValidator(options, env) ==
    applyOptions([tagName |-> s_validate, rules |-> EmptyMap, fullErrorPath |-> FALSE,
                  tagAliases |-> EmptyMap], options, 1, env)

\* var DefaultValidator = NewValidator(WithStandardRules(), WithStandardAliases()),
\* made when the package is initialised, the tag cache still empty
DefaultValidator == NewValidator(<<"WithStandardRules", "WithStandardAliases">>, Env(EmptyMap))

----------------------------------------------------------------------------
(* The inputs the calls are made with *)

\* "optional,lte=3"
d_optional_lte == s_optional \o <<",">> \o s_lte \o <<"=", "3">>
\* "required,gte=2,lte=3"
d_required_gte_lte == s_required \o <<",">> \o s_gte \o <<"=", "2", ",">> \o s_lte \o <<"=", "3">>
\* "x", a name no standard rule or alias has
s_x == <<"x">>

ValidatorIds == {"DefaultValidator", "v"}

\* the options the validator v is made with (DefaultValidator has no full error path)
OptionLists == {<<"WithFullErrorPath", "WithStandardRules">>}

FieldValues == {StringV(<<>>), StringV(<<"t", "e">>), IntV(5), BoolV(TRUE)}

FieldNames == {<<"N">>}

Declarations ==
    {s_required, d_optional_lte, d_required_gte_lte, s_username, s_x, s_dash}

\* rules a caller registers: gte overwritten with another checker, a new rule x
AddedRules ==
    {ValidationRule(s_gte, "LTE", "LTEErr"), ValidationRule(s_x, "Required", "RequiredErr")}

AliasNames == {s_username}

AliasDeclarations == {s_required, s_username, s_x}

\* struct { <name> int `validate:"required"` }
sub(name, n) == StructV(<<StructField(name, s_required, IntV(n))>>)

\* struct {
\*     A int              `validate:"required"`
\*     X struct { K int } `validate:"-"`          (K `validate:"required"`)
\*     L []struct { B int } `validate:"required,gte=2,lte=3"`
\*     S *struct { C int }
\*     b int              `validate:"required"`
\*     Z int              `validate:"required"`
\* }
testStruct(a, l, z) == StructV(<<
    StructField(<<"A">>, s_required, IntV(a)),
    StructField(<<"X">>, s_dash, sub(<<"K">>, 0)),
    StructField(<<"L">>, d_required_gte_lte, SliceV(<<sub(<<"B">>, l)>>)),
    StructField(<<"S">>, <<>>, PtrV(sub(<<"C">>, z))),
    StructField(<<"b">>, s_required, IntV(0)),
    StructField(<<"Z">>, s_required, IntV(z)) >>)

StructValues ==
    {PtrV(testStruct(f[1], f[2], f[3])) : f \in {<<0, 0, 0>>, <<1, 0, 1>>, <<0, 1, 0>>, <<1, 1, 0>>}}

----------------------------------------------------------------------------
(* Errors and results (validator.go, result.go, grpc/errors.go) *)

\* an error that is neither a FieldError nor a FieldErrors, with its text
OtherError(msg) == [type |-> "other", msg |-> msg]
\* fmt.Errorf("wrapped: %w", err)
Wrapped(err) == [type |-> "wrapped", err |-> err]

\* errors.As(err, &target), target of the type named: the first error of the
\* chain of err that is of this type
RECURSIVE As(_, _)
As(err, type) ==
    IF err.type = type THEN [ok |-> TRUE, target |-> err]
    ELSE IF err.type = "wrapped" THEN As(err.err, type)
    ELSE [ok |-> FALSE, target |-> ErrNil]

\* the loop of FieldErrors.Error over the entries ve, err the text so far
RECURSIVE ErrorLoop(_, _)
ErrorLoop(ve, err) ==
    IF ve = <<>> THEN err
    ELSE ErrorLoop(Tail(ve), (IF err # <<>> THEN err \o <<", ">> ELSE err) \o Head(ve).Field)

\* FieldErrors.Error
FieldErrors_Error(ve) ==
    Let(ErrorLoop(ve, <<>>), LAMBDA err :
        IF Len(ve) = 1 THEN <<"field is invalid: ">> \o err
        ELSE <<"fields are invalid: ">> \o err)

\* FieldError.Error
FieldError_Error(fe) == <<"field is invalid: ">> \o fe.Field

\* err.Error()
RECURSIVE ErrorText(_)
ErrorText(err) ==
    CASE err.type = "FieldError" -> FieldError_Error(err)
      [] err.type = "FieldErrors" -> FieldErrors_Error(err.errs)
      [] err.type = "other" -> err.msg
      [] err.type = "wrapped" -> <<"wrapped: ">> \o ErrorText(err.err)

\* a ValidationResult
ValidationResult(errors) == [Errors |-> errors]

\* AddError were a FieldErrors to replace the entries
AddErrorReplaces(r, err) ==
    Let(As(err, "FieldErrors"), LAMBDA fieldErrors :
        IF fieldErrors.ok THEN ValidationResult(fieldErrors.target.errs)
        ELSE Let(As(err, "FieldError"), LAMBDA fieldError :
                 IF fieldError.ok THEN ValidationResult(Append(r.Errors, fieldError.target))
                 ELSE r))

\* r.AddError(err)
AddError(r, err) ==
    Let(As(err, "FieldErrors"), LAMBDA fieldErrors :
        IF fieldErrors.ok THEN ValidationResult(r.Errors \o fieldErrors.target.errs)
        ELSE Let(As(err, "FieldError"), LAMBDA fieldError :
                 IF fieldError.ok THEN ValidationResult(Append(r.Errors, fieldError.target))
                 ELSE r))

\* r.AddErrors(err...)
RECURSIVE AddErrors(_, _)
AddErrors(r, errs) ==
    IF errs = <<>> THEN r
    ELSE Let(AddError(r, Head(errs)), LAMBDA r1 : AddErrors(r1, Tail(errs)))

\* NewResult(errs...)
RECURSIVE NewResultLoop(_, _)
NewResultLoop(r, errs) ==
    IF errs = <<>> THEN r
    ELSE IF Head(errs) = ErrNil THEN NewResultLoop(r, Tail(errs))
    ELSE Let(AddError(r, Head(errs)), LAMBDA r1 : NewResultLoop(r1, Tail(errs)))

NewResult(errs) == NewResultLoop(ValidationResult(<<>>), errs)

\* IsValid were it to take a single error for valid
IsValidUpToOne(r) == Len(r.Errors) <= 1

\* r.IsValid()
IsValid(r) == Len(r.Errors) = 0

\* r.Err()
Err(r) == IF IsValid(r) THEN ErrNil ELSE FieldErrors(r.Errors)

\* r.Error()
ValidationResult_Error(r) == IF IsValid(r) THEN <<>> ELSE FieldErrors_Error(r.Errors)

\* the loop of Fields over the arguments, result the entries so far
RECURSIVE FieldsLoop(_, _)
FieldsLoop(errs, res) ==
    IF errs = <<>> THEN res
    ELSE IF Head(errs) = ErrNil THEN FieldsLoop(Tail(errs), res)
    ELSE Let(As(Head(errs), "FieldError"), LAMBDA fieldError :
             FieldsLoop(Tail(errs),
                        Append(res, IF fieldError.ok THEN fieldError.target
                                    ELSE FieldError(<<>>, <<>>))))

\* Fields(errs...)
Fields(errs) ==
    Let(FieldsLoop(errs, <<>>), LAMBDA res :
        IF Len(res) = 0 THEN ErrNil ELSE FieldErrors(res))

\* a grpc status error; the nil error is NoStatus
NoStatus == [code |-> "nil"]
Status(code, message, details) == [code |-> code, message |-> message, details |-> details]

\* errdetails.BadRequest_FieldViolation
FieldViolation(field, description) == [Field |-> field, Description |-> description]

\* ValidationErrors were it to report the first entry only
ValidationErrorsFirstOnly(err) ==
    IF err = ErrNil THEN NoStatus
    ELSE Let(As(err, "FieldErrors"), LAMBDA errs :
             IF ~errs.ok
             THEN Status("Internal", <<"unexpected error type: ">> \o ErrorText(err), <<>>)
             ELSE IF Len(errs.target.errs) = 0 THEN NoStatus
             ELSE Status("InvalidArgument", FieldErrors_Error(errs.target.errs),
                         <<FieldViolation(errs.target.errs[1].Field,
                                          errs.target.errs[1].Description)>>))

\* grpc.ValidationErrors(err); WithDetails does not fail on a status that is
\* not OK
ValidationErrors(err) ==
    IF err = ErrNil THEN NoStatus
    ELSE Let(As(err, "FieldErrors"), LAMBDA errs :
             IF ~errs.ok
             THEN Status("Internal", <<"unexpected error type: ">> \o ErrorText(err), <<>>)
             ELSE IF Len(errs.target.errs) = 0 THEN NoStatus
             ELSE Status("InvalidArgument", FieldErrors_Error(errs.target.errs),
                         [i \in 1..Len(errs.target.errs) |->
                             FieldViolation(errs.target.errs[i].Field,
                                            errs.target.errs[i].Description)]))

----------------------------------------------------------------------------
(* The state machine: calls of the API, one after the other *)

NoCall == [g |-> "main", op |-> "none", mv |-> "DefaultValidator", val |-> NilV,
           field |-> <<>>, tags |-> <<>>, alias |-> <<>>, rule |-> <<>>,
           err |-> ErrNil, panic |-> NoPanic, invoked |-> <<>>, parsed |-> <<>>]

Goroutines == {"g1", "g2"}

Idle == [pc |-> "idle"]

Init ==
    \E options \in OptionLists :
    \E d \in {DefaultValidator} :
    \E v \in {NewValidator(options, Env(d.env.cache))} :
        /\ validators = [id \in ValidatorIds |->
                            IF id = "DefaultValidator" THEN d.mv ELSE v.mv]
        /\ tagCache = v.env.cache
        /\ inflight = [g \in Goroutines |-> Idle]
        /\ last = NoCall
        /\ calls = 0
        /\ result = NewResult(<<>>)

\* no mustParseTags call is between its Load and its Store
Quiet == \A g \in Goroutines : inflight[g] = Idle

\* mv.AddRule(rule)
CallAddRule(id, rule) ==
    /\ calls < MaxCalls
    /\ Quiet
    /\ validators' = [validators EXCEPT ![id] = AddRule(@, rule)]
    /\ last' = [NoCall EXCEPT !.op = "AddRule", !.mv = id, !.rule = rule]
    /\ calls' = calls + 1
    /\ UNCHANGED <<tagCache, inflight, result>>

\* mv.AddAlias(alias, tags)
CallAddAlias(id, alias, tags) ==
    /\ calls < MaxCalls
    /\ Quiet
    /\ \E r \in {AddAlias(validators[id], alias, tags, Env(tagCache))} :
           /\ validators' = [validators EXCEPT ![id] = r.mv]
           /\ tagCache' = r.env.cache
           /\ last' = [NoCall EXCEPT !.op = "AddAlias", !.mv = id, !.alias = alias,
                                     !.tags = tags, !.panic = r.env.panic,
                                     !.parsed = r.env.parsed]
    /\ calls' = calls + 1
    /\ UNCHANGED <<inflight, result>>

\* mv.Field(val, field, tags)
CallField(id, val, field, tags) ==
    /\ calls < MaxCalls
    /\ Quiet
    /\ \E r \in {Field(validators[id], val, field, tags, Env(tagCache))} :
           /\ tagCache' = r.env.cache
           /\ last' = [NoCall EXCEPT !.op = "Field", !.mv = id, !.val = val,
                                     !.field = field, !.tags = tags, !.err = r.err,
                                     !.panic = r.env.panic, !.invoked = r.env.invoked,
                                     !.parsed = r.env.parsed]
    /\ calls' = calls + 1
    /\ UNCHANGED <<validators, inflight, result>>

\* mv.Struct(value)
CallStruct(id, value) ==
    /\ calls < MaxCalls
    /\ Quiet
    /\ \E r \in {Struct(validators[id], value, Env(tagCache))} :
           /\ tagCache' = r.env.cache
           /\ last' = [NoCall EXCEPT !.op = "Struct", !.mv = id, !.val = value,
                                     !.err = r.err, !.panic = r.env.panic,
                                     !.invoked = r.env.invoked, !.parsed = r.env.parsed]
    /\ calls' = calls + 1
    /\ UNCHANGED <<validators, inflight, result>>

Next ==
    \/ \E id \in ValidatorIds, rule \in AddedRules : CallAddRule(id, rule)
    \/ \E id \in ValidatorIds, alias \in AliasNames, tags \in AliasDeclarations :
          CallAddAlias(id, alias, tags)
    \/ \E id \in ValidatorIds, val \in FieldValues, field \in FieldNames,
          tags \in Declarations : CallField(id, val, field, tags)
    \/ \E id \in ValidatorIds, value \in StructValues : CallStruct(id, value)

Spec == Init /\ [][Next]_vars

----------------------------------------------------------------------------
(* Validation calls of two goroutines: a call that misses the cache is two
   steps, tagCache.Load with the parse, and tagCache.Store with the rest *)

\* the names of the pieces of the declaration t, in its order
DeclNames(t) ==
    [i \in 1..Len(splitUnescapedComma(t)) |->
        Trim(SplitN2(ReplaceEscapedComma(splitUnescapedComma(t)[i]))[1])]

\* mv.Field(val, field, tags) by goroutine g up to the end of the loop of
\* mustParseTags; a call that needs no parse ("-", or a cache hit) or whose
\* parse panics runs to its end
FieldLoad(g, id, val, field, tags) ==
    /\ calls < MaxCalls
    /\ inflight[g] = Idle
    /\ IF tags = s_dash \/ tags \in DOMAIN tagCache
       THEN \E r \in {Field(validators[id], val, field, tags, Env(tagCache))} :
               /\ last' = [NoCall EXCEPT !.g = g, !.op = "Field", !.mv = id, !.val = val,
                                         !.field = field, !.tags = tags, !.err = r.err,
                                         !.panic = r.env.panic, !.invoked = r.env.invoked,
                                         !.parsed = r.env.parsed]
               /\ UNCHANGED inflight
       ELSE \E r \in {parseSpecs(validators[id], splitUnescapedComma(tags))} :
               IF r.panic # NoPanic
               THEN /\ last' = [NoCall EXCEPT !.g = g, !.op = "Field", !.mv = id,
                                              !.val = val, !.field = field, !.tags = tags,
                                              !.panic = r.panic]
                    /\ UNCHANGED inflight
               ELSE /\ inflight' = [inflight EXCEPT ![g] =
                                       [pc |-> "Store", mv |-> id, val |-> val,
                                        field |-> field, t |-> tags, tags |-> r.tags]]
                    /\ UNCHANGED last
    /\ calls' = calls + 1
    /\ UNCHANGED <<validators, tagCache, result>>

\* the rest of that call: tagCache.Store(t, tags), then the loop of singleField
FieldStore(g) ==
    /\ inflight[g] # Idle
    /\ \E c \in {ruleChain(inflight[g].tags, Interface(Deref(inflight[g].val)),
                           inflight[g].field)} :
           last' = [NoCall EXCEPT !.g = g, !.op = "Field", !.mv = inflight[g].mv,
                                  !.val = inflight[g].val, !.field = inflight[g].field,
                                  !.tags = inflight[g].t, !.err = c.err, !.panic = c.panic,
                                  !.invoked = c.invoked,
                                  !.parsed = <<<<inflight[g].t, inflight[g].tags>>>>]
    /\ tagCache' = Store(tagCache, inflight[g].t, inflight[g].tags)
    /\ inflight' = [inflight EXCEPT ![g] = Idle]
    /\ UNCHANGED <<validators, calls, result>>

\* what the goroutines validate
ConcFieldValues == {StringV(<<>>), IntV(5)}
ConcDeclarations == {s_required, d_required_gte_lte, s_x}

ConcNext ==
    \/ \E id \in ValidatorIds, rule \in AddedRules : CallAddRule(id, rule)
    \/ \E g \in Goroutines, id \in ValidatorIds, val \in ConcFieldValues,
          field \in FieldNames, tags \in ConcDeclarations : FieldLoad(g, id, val, field, tags)
    \/ \E g \in Goroutines : FieldStore(g)

ConcSpec == Init /\ [][ConcNext]_vars

----------------------------------------------------------------------------
(* The properties *)

\* the last call was a Field call that reached the rule chain and returned
FieldReturned ==
    last.op = "Field" /\ last.panic = NoPanic /\ last.parsed # <<>>

\* the tags mustParseTags resolved the declaration of the last Field call to
ResolvedTags == last.parsed[1][2]

\* the checker of ResolvedTags[i] returns true on the value of the last call
CheckerTrue(i) ==
    LET c == Checker(ResolvedTags[i].Rule.Checker, last.val, ResolvedTags[i].Param)
    IN  c.panic = NoPanic /\ c.ok

\* the first tag whose checker returns false, 0 when every checker returns true
FirstFalse ==
    IF \A i \in 1..Len(ResolvedTags) : CheckerTrue(i) THEN 0
    ELSE Min({i \in 1..Len(ResolvedTags) : ~CheckerTrue(i)})

\* the checkers were invoked on the tags 1..n, in that order, and on no other
InvokedUpTo(n) ==
    /\ Len(last.invoked) = n
    /\ \A i \in 1..n : /\ last.invoked[i].Name = ResolvedTags[i].Name
                       /\ last.invoked[i].Checker = ResolvedTags[i].Rule.Checker
                       /\ last.invoked[i].Param = ResolvedTags[i].Param

\* C1: Field evaluates the resolved tags in declaration order; at the first
\* tag whose checker returns false and whose rule has an error function it
\* returns exactly the FieldError of that field with that rule's message and
\* invokes no later checker; when every checker returns true it returns nil.
C1_RuleChain ==
    FieldReturned =>
        /\ (\A i \in 1..Len(DeclNames(last.tags)) :
                DeclNames(last.tags)[i] \in DOMAIN validators[last.mv].rules)
           => /\ Len(ResolvedTags) = Len(DeclNames(last.tags))
              /\ \A i \in 1..Len(ResolvedTags) :
                    ResolvedTags[i].Name = DeclNames(last.tags)[i]
        /\ FirstFalse = 0 => last.err = ErrNil /\ InvokedUpTo(Len(ResolvedTags))
        /\ (FirstFalse # 0 /\ ResolvedTags[FirstFalse].Rule.ErrorFunc # "nil")
           => /\ InvokedUpTo(FirstFalse)
              /\ last.err = FieldError(last.field,
                                ErrorFunc(ResolvedTags[FirstFalse].Rule.ErrorFunc,
                                          last.field, last.val, ResolvedTags[FirstFalse]))

\* a Field call failed at the first of three tags
C1_Witness ==
    /\ FieldReturned
    /\ last.tags = d_required_gte_lte
    /\ last.val = StringV(<<>>)
    /\ last.err = FieldError(<<"N">>, <<"N", " is required">>)
    /\ Len(last.invoked) = 1

\* C2: when a checker returns false and its rule has no error function (the
\* optional rule), Field returns nil and invokes no later checker; when the
\* optional checker returns true, the tags after it are evaluated.
C2_OptionalStopsChain ==
    (last.op = "Field" /\ last.parsed # <<>>) =>
        /\ (last.panic = NoPanic /\ FirstFalse # 0
               /\ ResolvedTags[FirstFalse].Rule.ErrorFunc = "nil")
           => last.err = ErrNil /\ InvokedUpTo(FirstFalse)
        /\ \A i \in 1..(Len(ResolvedTags) - 1) :
              (ResolvedTags[i].Rule.ErrorFunc = "nil" /\ \A j \in 1..i : CheckerTrue(j))
              => /\ Len(last.invoked) > i
                 /\ last.invoked[i + 1].Name = ResolvedTags[i + 1].Name

\* `optional,lte=3` on an empty string: nil, and lte never invoked
C2_Witness ==
    /\ FieldReturned
    /\ last.tags = d_optional_lte
    /\ last.val = StringV(<<>>)
    /\ last.err = ErrNil
    /\ Len(last.invoked) = 1
    /\ last.invoked[1].Name = s_optional

\* the fields of testStruct at which a failure can be reported, as Struct
\* names them, in the order of the walk: a field, then what is below it
SiteOrder(fullErrorPath) ==
    IF fullErrorPath
    THEN << <<"A">>, <<"L">>, <<"L", "[", Rune(0), "]", ".", "B">>, <<"S", ".", "C">>, <<"Z">> >>
    ELSE << <<"A">>, <<"L">>, <<"B">>, <<"C">>, <<"Z">> >>

\* the place of a field name in a sequence of names, 0 if it is not in it
Rank(name, order) ==
    IF \E i \in 1..Len(order) : order[i] = name
    THEN CHOOSE i \in 1..Len(order) : order[i] = name
    ELSE 0

\* C3: the failures Struct returns are in traversal order: fields in
\* declaration order, a field's own failure immediately before the failures
\* found below that field, all of them before any failure of a later field.
C3_TraversalOrder ==
    (last.op = "Struct" /\ last.err # ErrNil) =>
        LET order == SiteOrder(validators[last.mv].fullErrorPath)
            errs  == last.err.errs
        IN  /\ \A i \in 1..Len(errs) : Rank(errs[i].Field, order) # 0
            /\ \A i, j \in 1..Len(errs) :
                  i < j => Rank(errs[i].Field, order) < Rank(errs[j].Field, order)

\* Struct reported a field's own failure, one below it and one of a later field
C3_Witness ==
    /\ last.op = "Struct"
    /\ last.mv = "v"
    /\ last.err # ErrNil
    /\ Len(last.err.errs) = 5
    /\ last.err.errs[2].Field = <<"L">>
    /\ last.err.errs[3].Field = <<"L", "[", Rune(0), "]", ".", "B">>
    /\ last.err.errs[5].Field = <<"Z">>

\* C10: a struct field declared `-` contributes no failure, no checker is
\* invoked on it and the walk does not go into it; Field(value, field, "-")
\* returns nil without invoking a checker and without parsing.
C10_DashIsSkipped ==
    /\ last.op = "Struct" =>
          /\ \A i \in 1..Len(last.invoked) : last.invoked[i].field \notin {<<"X">>, <<"K">>}
          /\ last.err # ErrNil =>
                \A i \in 1..Len(last.err.errs) :
                    /\ last.err.errs[i].Field[1] # "X"
                    /\ last.err.errs[i].Field # <<"K">>
    /\ (last.op = "Field" /\ last.tags = s_dash) =>
          /\ last.err = ErrNil
          /\ last.panic = NoPanic
          /\ last.invoked = <<>>
          /\ last.parsed = <<>>

\* Struct walked a struct whose `-` field holds a failing field, and reported
\* the failures of the other fields
C10_Witness ==
    /\ last.op = "Struct"
    /\ last.val.elem.fields[2].Tag = s_dash
    /\ Required(last.val.elem.fields[2].val.fields[1].val) = Returns(FALSE)
    /\ last.panic = NoPanic
    /\ last.err # ErrNil
    /\ \E i \in 1..Len(last.invoked) : last.invoked[i].field = <<"Z">>

\* the declaration t names a tag that is neither a rule nor an alias of mv
NamesUnknownTag(mv, t) ==
    \E i \in 1..Len(DeclNames(t)) :
        DeclNames(t)[i] \notin DOMAIN mv.rules \cup DOMAIN mv.tagAliases

\* what Field(val, "N", tags) on mv gives, result or panic, with this tag cache
Outcome(mv, val, tags, cache) ==
    LET r == Field(mv, val, <<"N">>, tags, Env(cache))
    IN  <<r.err, r.env.panic>>

\* C4: after any calls, a Field call whose declaration names a tag that is
\* neither a rule nor an alias of its validator panics with
\* `unknown validate tag "<name>"`; it returns neither a failure nor nil.
C4_UnknownTagPanics ==
    (last.op = "Field" /\ last.tags # s_dash
        /\ NamesUnknownTag(validators[last.mv], last.tags)) =>
        last.panic = parseSpecs(validators[last.mv], splitUnescapedComma(last.tags)).panic

\* C5: a call made on one validator never changes what a Field call on
\* another validator gives, result or panic, for any value and declaration.
C5_InstanceStateOnly ==
    [][\A id \in ValidatorIds :
          (last'.mv # id /\ validators'[id] = validators[id]) =>
              \A val \in FieldValues, tags \in Declarations :
                  Outcome(validators[id], val, tags, tagCache')
                     = Outcome(validators[id], val, tags, tagCache)]_vars

\* C6: an entry of the tag cache, once stored, is never replaced by a
\* different tag sequence, in any interleaving of validation calls.
C6_CacheEntryNeverReplaced ==
    [][\A t \in DOMAIN tagCache :
          t \in DOMAIN tagCache' /\ tagCache'[t] = tagCache[t]]_vars

\* AddRule has put a rule under the name n that validator id already held a
\* rule under (both validators are made with the standard rules)
Overwritten(id, n) ==
    /\ n \in DOMAIN DefaultValidator.mv.rules
    /\ validators[id].rules[n] # DefaultValidator.mv.rules[n]

\* C7: after AddRule has overwritten the rule under a name, a Field call on
\* that validator whose declaration names it uses the checker and the error
\* function of the overwriting rule, whatever the declaration string and
\* whether or not it was validated before.
C7_AddRuleOverwrites ==
    (FieldReturned /\ \A i \in 1..Len(DeclNames(last.tags)) :
                         DeclNames(last.tags)[i] \in DOMAIN validators[last.mv].rules) =>
        \A i \in 1..Len(ResolvedTags) :
            Overwritten(last.mv, ResolvedTags[i].Name) =>
                ResolvedTags[i].Rule = validators[last.mv].rules[ResolvedTags[i].Name]

\* C8: AddAlias(name, decl) panics when decl names a tag that is, when the
\* call is made, neither a rule nor an alias of the validator, and a call
\* that panics leaves the alias table as it was.
C8_AddAliasResolvesNow ==
    [][(last'.op = "AddAlias" /\ calls' = calls + 1) =>
          /\ NamesUnknownTag(validators[last'.mv], last'.tags) => last'.panic # NoPanic
          /\ last'.panic # NoPanic => validators' = validators]_vars

\* C9: a Field call whose declaration is the name of an alias of its
\* validator gives what the rule chain over the alias's tags, in their order,
\* gives for that value.
C9_AliasIsInlined ==
    (last.op = "Field" /\ Len(DeclNames(last.tags)) = 1
        /\ DeclNames(last.tags)[1] \notin DOMAIN validators[last.mv].rules
        /\ DeclNames(last.tags)[1] \in DOMAIN validators[last.mv].tagAliases) =>
        LET c == ruleChain(validators[last.mv].tagAliases[DeclNames(last.tags)[1]],
                           last.val, last.field)
        IN  last.err = c.err /\ last.panic = c.panic

----------------------------------------------------------------------------
(* Struct on nested structs: the field names of the failures *)

\* struct {
\*     A   int `validate:"required"`
\*     Sub struct {
\*         A    int `validate:"required"`
\*         B    string
\*         C    int     `validate:"required"`
\*         D    *string `validate:"required"`
\*         Sub2 struct { A int `validate:"required"` }
\*     }
\* }
\* f gives the five required values: 0 is the zero value (the nil pointer for D)
complexStruct(f) == StructV(<<
    StructField(<<"A">>, s_required, IntV(f[1])),
    StructField(<<"S", "u", "b">>, <<>>, StructV(<<
        StructField(<<"A">>, s_required, IntV(f[2])),
        StructField(<<"B">>, <<>>, StringV(<<>>)),
        StructField(<<"C">>, s_required, IntV(f[3])),
        StructField(<<"D">>, s_required,
                    IF f[4] = 0 THEN NilPtr ELSE PtrV(StringV(<<"d">>))),
        StructField(<<"S", "u", "b", "2">>, <<>>, sub(<<"A">>, f[5])) >>)) >>)

ComplexFlags == [1..5 -> {0, 1}]

ComplexValues == {PtrV(complexStruct(f)) : f \in ComplexFlags}

PathNext ==
    \E id \in ValidatorIds, value \in ComplexValues : CallStruct(id, value)

PathSpec == Init /\ [][PathNext]_vars

\* the names Struct gives the five fields of complexStruct, in the order of
\* the walk, with and without the full error path
ComplexNames(fullErrorPath) ==
    IF fullErrorPath
    THEN << <<"A">>, <<"S", "u", "b", ".", "A">>, <<"S", "u", "b", ".", "C">>,
            <<"S", "u", "b", ".", "D">>,
            <<"S", "u", "b", ".", "S", "u", "b", "2", ".", "A">> >>
    ELSE << <<"A">>, <<"A">>, <<"C">>, <<"D">>, <<"A">> >>

\* the names of those of the five fields whose flag is 0, from field i on
RECURSIVE FailingNames(_, _, _)
FailingNames(names, f, i) ==
    IF i > Len(names) THEN <<>>
    ELSE (IF f[i] = 0 THEN <<names[i]>> ELSE <<>>) \o FailingNames(names, f, i + 1)

\* the field names of the failures the last Struct call returned
ReportedNames ==
    IF last.err = ErrNil THEN <<>>
    ELSE [i \in 1..Len(last.err.errs) |-> last.err.errs[i].Field]

\* C11: the validator made with WithFullErrorPath reports a failure on A in
\* Sub2 in Sub as Sub.Sub2.A, the dot-joined names of the containing fields,
\* and a root-level failure unprefixed; the validator without the option
\* reports the bare name A at every depth.
C11_FullErrorPath ==
    last.op = "Struct" =>
        \A f \in ComplexFlags :
            last.val = PtrV(complexStruct(f)) =>
                ReportedNames = FailingNames(ComplexNames(last.mv = "v"), f, 1)

\* the validator with the full error path has reported the failure three levels deep
C11_Witness ==
    /\ last.op = "Struct"
    /\ last.mv = "v"
    /\ last.val = PtrV(complexStruct([i \in 1..5 |-> 0]))
    /\ Len(last.err.errs) = 5
    /\ last.err.errs[5].Field = <<"S", "u", "b", ".", "S", "u", "b", "2", ".", "A">>
    /\ last.err.errs[1].Field = <<"A">>

----------------------------------------------------------------------------
(* The standard checkers applied to one value: a checker of StandardRules is
   called with a value and a parameter while the clock reads now, or
   validate.Field is called on DefaultValidator with a gte or lte declaration. *)

\* the checkers of StandardRules that read the clock take the reading
StandardChecker(fn, v, param, now) ==
    CASE fn = "Gender" -> Gender(v)
      [] fn = "ISODate" -> ISODate(v)
      [] fn = "MinDate" -> MinDate(v, param, now)
      [] fn = "MaxDate" -> MaxDate(v, param, now)
      [] OTHER -> Checker(fn, v, param)

CheckerNames ==
    {"Required", "Optional", "GTE", "LTE", "AZ09", "Gender", "ISODate", "MinDate", "MaxDate"}

\* yesterday, today and tomorrow of the clock readings
Dates == <<14, 15, 16>>
Yesterday == Dates[1]
Today == Dates[2]
Tomorrow == Dates[3]
Clock == {Instant(Today, tod) : tod \in TimesOfDay}

RuleStrings ==
    {<<>>, <<"a", "b">>, <<"a", "b", "c">>, <<c_eacute>>, <<c_eacute, "a">>, <<"_", "a">>,
     <<"m", "a", "l", "e">>, <<"2", "0", "2", "4">>,
     DateString(Yesterday), DateString(Today), DateString(Tomorrow)}

RuleValues ==
    {StringV(s) : s \in RuleStrings}
    \cup {IntV(n) : n \in {-2, 0, 2, 3}}
    \cup {UintV(n) : n \in {0, 2, 3}}
    \cup {FloatV(h) : h \in {0, 1, 4, 5, 6}}
    \cup {BoolV(b) : b \in BOOLEAN}
    \cup {NilV, NilPtr, PtrV(StringV(<<>>)), PtrV(StringV(DateString(Today))),
          PtrV(BoolV(FALSE)), ChanV, StructV(<<>>), sub(<<"A">>, 0), InvalidTime}
    \cup {SliceV(e) : e \in {<<>>, <<StringV(<<"a">>), StringV(<<"b">>)>>,
                             <<StringV(<<"a">>), StringV(<<"b">>), StringV(<<"_">>)>>}}
    \cup {ArrayV(e) : e \in {<<>>, <<StringV(<<>>), StringV(<<>>)>>}}
    \cup {MapV(e) : e \in {<<>>, << <<StringV(<<"k">>), IntV(0)>> >>}}
    \cup {TimeV(Instant(day, tod)) : day \in {Yesterday, Today, Tomorrow}, tod \in TimesOfDay}

RuleParams ==
    {<<>>, <<"1">>, <<"2">>, <<"3">>, <<"-", "1">>, <<"2", ".", "5">>, s_now, DateString(Today)}

\* "gte=<param>" and "lte=<param>"
BoundDeclarations ==
    {name \o <<"=">> \o param : name \in {s_gte, s_lte}, param \in RuleParams \ {<<>>}}

\* rule.Checker(v, param), the clock reading now
CheckRule(fn, v, param, now) ==
    /\ last.op = "none"
    /\ \E c \in {StandardChecker(fn, v, param, now)} :
           last' = [op |-> "Checker", fn |-> fn, val |-> v, param |-> param,
                    now |-> now, panic |-> c.panic, ok |-> c.ok]
    /\ calls' = calls + 1
    /\ UNCHANGED <<validators, tagCache, inflight, result>>

RulesNext ==
    \/ \E fn \in CheckerNames, v \in RuleValues, param \in RuleParams, now \in Clock :
           CheckRule(fn, v, param, now)
    \/ \E v \in RuleValues, tags \in BoundDeclarations :
           last.op = "none" /\ CallField("DefaultValidator", v, <<"N">>, tags)

RulesSpec == Init /\ [][RulesNext]_vars

----------------------------------------------------------------------------
(* C12: a checker on a kind it does not support *)

CheckerReturned == last.op = "Checker" /\ last.panic = NoPanic

\* the kinds a checker has a case for (the date checkers after following a
\* pointer)
SupportedKinds(fn) ==
    CASE fn \in {"Required", "Optional"} ->
            {"string", "ptr", "interface", "slice", "map", "array", "int", "uint",
             "float", "bool", "invalid", "struct"}
      [] fn \in {"GTE", "LTE"} -> {"string", "slice", "map", "array", "int", "uint", "float"}
      [] fn = "Gender" -> {"string"}
      [] fn \in {"ISODate", "MinDate", "MaxDate"} -> {"ptr", "string", "struct"}
      [] fn = "AZ09" -> {"string", "slice", "array"}

\* the value is of a kind the checker has no case for
Unsupported(fn, v) ==
    IF fn \in {"ISODate", "MinDate", "MaxDate"} THEN Pointee(v).kind \notin SupportedKinds(fn)
    ELSE v.kind \notin SupportedKinds(fn)

\* C12: every standard checker (required, gte, lte, gender, isodate, mindate,
\* maxdate, the pattern rules) called on a value of a kind it does not
\* support panics; it returns neither false nor true.
C12_UnsupportedKindPanics ==
    (last.op = "Checker" /\ Unsupported(last.fn, last.val)) => last.panic # NoPanic

----------------------------------------------------------------------------
(* C13: required *)

\* the zero, empty or absent form of a kind that required supports
ZeroForm(v) ==
    CASE v.kind = "string" -> v.s = <<>>
      [] v.kind \in {"ptr", "interface"} -> v.isNil
      [] v.kind \in {"slice", "map", "array"} -> Len(v.elems) = 0
      [] v.kind \in {"int", "uint"} -> v.n = 0
      [] v.kind = "float" -> v.h = 0
      [] v.kind = "bool" -> v.b = FALSE
      [] v.kind = "invalid" -> TRUE
      [] v.kind = "struct" -> FALSE

\* C13: required returns false exactly on the zero, empty or absent form of
\* each kind it supports (empty text, nil pointer or interface, slice, map or
\* array without elements, the number zero, false, a value without a kind) and
\* true on every other value of these kinds, any struct included.
C13_RequiredFailsOnZeroForm ==
    (last.op = "Checker" /\ last.fn = "Required" /\ ~Unsupported("Required", last.val))
        => (last.panic = NoPanic /\ (last.ok <=> ~ZeroForm(last.val)))

\* required has passed a struct without fields
C13_Witness ==
    /\ CheckerReturned /\ last.fn = "Required"
    /\ last.val = StructV(<<>>)
    /\ last.ok

----------------------------------------------------------------------------
(* C14: gte and lte *)

\* a decimal number, signed or not, with or without the fraction .5, in halves
NumberInHalves(param) ==
    LET neg  == Head(param) = "-"
        body == IF neg THEN Tail(param) ELSE param
        frac == Len(body) > 2 /\ body[Len(body) - 1] = "."
        int  == IF frac THEN SubSeq(body, 1, Len(body) - 2) ELSE body
        h    == 2 * DigitsValue(int, 10) + (IF frac /\ body[Len(body)] = "5" THEN 1 ELSE 0)
    IN  IF neg THEN 0 - h ELSE h

IsNumber(param) == param \in {<<"1">>, <<"2">>, <<"3">>, <<"-", "1">>, <<"2", ".", "5">>}

\* the measure of a value, in halves: the characters of a text, the elements,
\* the number
MeasureInHalves(v) ==
    CASE v.kind = "string" -> 2 * Len(v.s)
      [] v.kind \in {"slice", "map", "array"} -> 2 * Len(v.elems)
      [] v.kind \in {"int", "uint"} -> 2 * v.n
      [] v.kind = "float" -> v.h

\* the declaration of the last Field call is <name>=<param>
DeclaredBound(name) ==
    /\ last.op = "Field"
    /\ Len(last.tags) > Len(name) + 1
    /\ SubSeq(last.tags, 1, Len(name) + 1) = name \o <<"=">>

BoundParam == SubSeq(last.tags, 5, Len(last.tags))

\* the message of a failure of gte (atLeast) or lte for the kind of the value
BoundMessage(atLeast) ==
    CASE last.val.kind = "string" ->
            last.field \o <<IF atLeast THEN " must be at least " ELSE " must be at most ">>
                \o BoundParam \o <<" characters long">>
      [] last.val.kind \in {"slice", "map", "array"} ->
            last.field \o <<IF atLeast THEN " must contain at least "
                            ELSE " may not contain more than ">>
                \o BoundParam \o <<" elements">>
      [] OTHER ->
            last.field \o <<IF atLeast THEN " must be at least " ELSE " maximum value is ">>
                \o BoundParam

\* C14: for a text, a slice, a map, an array, a signed, an unsigned or a
\* floating number, gte=N passes iff the measure (the length of the text, the
\* number of elements, the number) is at least N and lte=N passes iff it is at
\* most N; a failure carries the message of the kind.
C14_BoundsAreInclusive ==
    \A atLeast \in BOOLEAN :
        (/\ DeclaredBound(IF atLeast THEN s_gte ELSE s_lte)
         /\ IsNumber(BoundParam)
         /\ ~Unsupported("GTE", last.val))
        => /\ last.panic = NoPanic
           /\ IF (IF atLeast THEN MeasureInHalves(last.val) >= NumberInHalves(BoundParam)
                  ELSE MeasureInHalves(last.val) <= NumberInHalves(BoundParam))
              THEN last.err = ErrNil
              ELSE last.err = FieldError(last.field, BoundMessage(atLeast))

----------------------------------------------------------------------------
(* C15: mindate=now and maxdate=now *)

\* the last call was fn on the text of a date, or on a time.Time at the first
\* instant of a date, with the parameter now; the day of that date
DateChecked(fn, day) ==
    /\ last.op = "Checker" /\ last.fn = fn /\ last.param = s_now
    /\ last.val \in {StringV(DateString(day)), TimeV(Instant(day, 0))}

\* C15: with the parameter now, at every time of day, today's UTC date passes
\* mindate and maxdate, an earlier date fails mindate and a later date fails
\* maxdate.
C15_NowIsTodaysDate ==
    \A day \in {Yesterday, Today, Tomorrow} :
        /\ DateChecked("MinDate", day)
               => (last.panic = NoPanic /\ (last.ok <=> day >= DayOf(last.now)))
        /\ DateChecked("MaxDate", day)
               => (last.panic = NoPanic /\ (last.ok <=> day <= DayOf(last.now)))

----------------------------------------------------------------------------
(* Composing a ValidationResult: NewResult, AddError and AddErrors on the
   result of the caller, and its IsValid, Err and Error *)

MaxErrors == 3

\* the sequences over S of at most n elements
SeqsUpTo(S, n) == UNION {[1..k -> S] : k \in 0..n}

e_A == FieldError(<<"A">>, <<"Message A">>)
e_B == FieldError(<<"B">>, <<"Message B">>)
\* the failure of a field validated under the name ""
e_unnamed == FieldError(<<>>, <<"Message">>)
errRandom == OtherError(<<"random error">>)

ResultErrors ==
    {ErrNil, e_A, e_B, errRandom, FieldErrors(<<>>), FieldErrors(<<e_B, e_A>>), Wrapped(e_B)}

ResultErrorLists == SeqsUpTo({ErrNil, e_A, FieldErrors(<<e_B, e_A>>)}, 2)

\* what a call on the result returned last
ResultCall(op, args, before, ret) ==
    [op |-> op, args |-> args, before |-> before, ret |-> ret]

\* result = NewResult(errs...)
CallNewResult(errs) ==
    /\ calls < MaxCalls
    /\ result' = NewResult(errs)
    /\ last' = ResultCall("NewResult", errs, result, ErrNil)
    /\ calls' = calls + 1
    /\ UNCHANGED <<validators, tagCache, inflight>>

\* result.AddError(err)
CallAddError(err) ==
    /\ calls < MaxCalls
    /\ result' = AddError(result, err)
    /\ last' = ResultCall("AddError", <<err>>, result, ErrNil)
    /\ calls' = calls + 1
    /\ UNCHANGED <<validators, tagCache, inflight>>

\* result.AddErrors(errs...)
CallAddErrors(errs) ==
    /\ calls < MaxCalls
    /\ result' = AddErrors(result, errs)
    /\ last' = ResultCall("AddErrors", errs, result, ErrNil)
    /\ calls' = calls + 1
    /\ UNCHANGED <<validators, tagCache, inflight>>

\* result.IsValid()
CallIsValid ==
    /\ calls < MaxCalls
    /\ last' = ResultCall("IsValid", <<>>, result, IsValid(result))
    /\ calls' = calls + 1
    /\ UNCHANGED <<validators, tagCache, inflight, result>>

\* result.Err()
CallErr ==
    /\ calls < MaxCalls
    /\ last' = ResultCall("Err", <<>>, result, Err(result))
    /\ calls' = calls + 1
    /\ UNCHANGED <<validators, tagCache, inflight, result>>

\* result.Error()
CallResultError ==
    /\ calls < MaxCalls
    /\ last' = ResultCall("Error", <<>>, result, ValidationResult_Error(result))
    /\ calls' = calls + 1
    /\ UNCHANGED <<validators, tagCache, inflight, result>>

ResultNext ==
    \/ \E errs \in ResultErrorLists : CallNewResult(errs)
    \/ \E err \in ResultErrors : CallAddError(err)
    \/ \E errs \in ResultErrorLists : CallAddErrors(errs)
    \/ CallIsValid
    \/ CallErr
    \/ CallResultError

ResultSpec == Init /\ [][ResultNext]_vars

----------------------------------------------------------------------------
(* C17: AddError *)

\* the field failures an error carries, in order
RECURSIVE Carried(_)
Carried(err) ==
    CASE err.type = "FieldError" -> <<err>>
      [] err.type = "FieldErrors" -> err.errs
      [] err.type = "wrapped" -> Carried(err.err)
      [] OTHER -> <<>>

RECURSIVE CarriedByAll(_)
CarriedByAll(errs) ==
    IF errs = <<>> THEN <<>> ELSE Carried(Head(errs)) \o CarriedByAll(Tail(errs))

\* C17: AddError(err) appends to Errors, in order, the FieldError or the
\* entries of the FieldErrors that err carries, and nothing for a nil error,
\* an empty FieldErrors or any other error; AddError and AddErrors remove and
\* reorder no entry that was there.
C17_AddErrorAppends ==
    /\ last.op = "AddError" =>
           result.Errors = last.before.Errors \o Carried(last.args[1])
    /\ last.op = "AddErrors" =>
           result.Errors = last.before.Errors \o CarriedByAll(last.args)

\* AddError has appended the two entries of a FieldErrors after an entry
C17_Witness ==
    /\ last.op = "AddError"
    /\ last.before.Errors = <<e_A>>
    /\ last.args = <<FieldErrors(<<e_B, e_A>>)>>
    /\ result.Errors = <<e_A, e_B, e_A>>

----------------------------------------------------------------------------
(* C18: IsValid, Err and Error *)

\* C18: after any NewResult, AddError and AddErrors calls, IsValid() is true
\* iff Errors is empty, Err() is nil iff Errors is empty and is Errors
\* otherwise, and Error() is the empty string iff Errors is empty.
C18_ValidIffNoErrors ==
    /\ last.op = "IsValid" => (last.ret <=> result.Errors = <<>>)
    /\ last.op = "Err" =>
           /\ last.ret = ErrNil <=> result.Errors = <<>>
           /\ last.ret # ErrNil => last.ret = FieldErrors(result.Errors)
    /\ last.op = "Error" => (last.ret = <<>> <=> result.Errors = <<>>)

\* Err has returned the single entry of a result
C18_Witness ==
    /\ last.op = "Err"
    /\ Len(result.Errors) = 1
    /\ last.ret = FieldErrors(result.Errors)

----------------------------------------------------------------------------
(* Rendering, composing and translating errors: one call of
   FieldErrors.Error, of Fields or of grpc.ValidationErrors *)

FieldErrorLists == SeqsUpTo({e_A, e_B, e_unnamed}, MaxErrors)

TranslatedErrors ==
    {ErrNil, errRandom, e_A, Wrapped(FieldErrors(<<e_A, e_B>>))}
        \cup {FieldErrors(ve) : ve \in FieldErrorLists}

ComposedErrorLists ==
    SeqsUpTo({ErrNil, e_A, e_B, Wrapped(e_B), errRandom, FieldErrors(<<e_A, e_B>>)}, MaxErrors)

\* ve.Error()
CallFieldErrorsError(ve) ==
    /\ last.op = "none"
    /\ last' = ResultCall("FieldErrors.Error", <<FieldErrors(ve)>>, result, FieldErrors_Error(ve))
    /\ calls' = calls + 1
    /\ UNCHANGED <<validators, tagCache, inflight, result>>

\* Fields(errs...)
CallFields(errs) ==
    /\ last.op = "none"
    /\ last' = ResultCall("Fields", errs, result, Fields(errs))
    /\ calls' = calls + 1
    /\ UNCHANGED <<validators, tagCache, inflight, result>>

\* grpc.ValidationErrors(err)
CallValidationErrors(err) ==
    /\ last.op = "none"
    /\ last' = ResultCall("ValidationErrors", <<err>>, result, ValidationErrors(err))
    /\ calls' = calls + 1
    /\ UNCHANGED <<validators, tagCache, inflight, result>>

\* grpc.ValidationError(err); WithDetails does not fail on a status that is
\* not OK
ValidationError(err) ==
    IF err = ErrNil THEN NoStatus
    ELSE Let(As(err, "FieldError"), LAMBDA fieldErr :
             IF ~fieldErr.ok
             THEN Status("Internal", <<"unexpected error type: ">> \o ErrorText(err), <<>>)
             ELSE Status("InvalidArgument", FieldError_Error(fieldErr.target),
                         <<FieldViolation(fieldErr.target.Field,
                                          fieldErr.target.Description)>>))

\* grpc.ValidationError(err)
CallValidationError(err) ==
    /\ last.op = "none"
    /\ last' = ResultCall("ValidationError", <<err>>, result, ValidationError(err))
    /\ calls' = calls + 1
    /\ UNCHANGED <<validators, tagCache, inflight, result>>

ErrorsNext ==
    \/ \E ve \in FieldErrorLists : CallFieldErrorsError(ve)
    \/ \E errs \in ComposedErrorLists : CallFields(errs)
    \/ \E err \in TranslatedErrors : CallValidationErrors(err)
    \/ \E err \in TranslatedErrors : CallValidationError(err)

ErrorsSpec == Init /\ [][ErrorsNext]_vars

----------------------------------------------------------------------------
(* C16: FieldErrors.Error *)

\* the field names of the entries, with ", " between each two
RECURSIVE JoinFields(_)
JoinFields(ve) ==
    IF ve = <<>> THEN <<>>
    ELSE IF Len(ve) = 1 THEN ve[1].Field
    ELSE ve[1].Field \o <<", ">> \o JoinFields(Tail(ve))

\* C16: FieldErrors.Error() is "field is invalid: <field>" for one entry and,
\* for any other number of entries, "fields are invalid: " followed by the
\* field names of all the entries in order, joined by ", ", whatever the names.
C16_ErrorJoinsEveryField ==
    last.op = "FieldErrors.Error" =>
        last.ret = (IF Len(last.args[1].errs) = 1 THEN <<"field is invalid: ">>
                    ELSE <<"fields are invalid: ">>) \o JoinFields(last.args[1].errs)

----------------------------------------------------------------------------
(* C19: Fields *)

\* C19: Fields(errs...) returns nil iff every argument is nil, and otherwise
\* the FieldErrors of the field failures that the arguments other than nil
\* carry, in the order of the arguments: none is lost and none is added.
C19_FieldsKeepsEveryFailure ==
    last.op = "Fields" =>
        IF \A i \in 1..Len(last.args) : last.args[i] = ErrNil
        THEN last.ret = ErrNil
        ELSE last.ret = FieldErrors(CarriedByAll(last.args))

----------------------------------------------------------------------------
(* C20: grpc.ValidationErrors *)

\* C20: ValidationErrors(err) returns nil for a nil error and for an empty
\* FieldErrors; for a FieldErrors of n >= 1 entries it returns an
\* InvalidArgument status whose message is FieldErrors.Error() and whose
\* BadRequest detail holds n field violations, the i-th with the field and
\* the description of the i-th entry.
C20_OneViolationPerFieldError ==
    (last.op = "ValidationErrors" /\ last.args[1].type \in {"nil", "FieldErrors"}) =>
        IF last.args[1] \in {ErrNil, FieldErrors(<<>>)} THEN last.ret = NoStatus
        ELSE /\ last.ret.code = "InvalidArgument"
             /\ last.ret.message = FieldErrors_Error(last.args[1].errs)
             /\ Len(last.ret.details) = Len(last.args[1].errs)
             /\ \A i \in 1..Len(last.args[1].errs) :
                    /\ last.ret.details[i].Field = last.args[1].errs[i].Field
                    /\ last.ret.details[i].Description = last.args[1].errs[i].Description

\* ValidationErrors has translated a FieldErrors of three entries
C20_Witness ==
    /\ last.op = "ValidationErrors"
    /\ last.args = <<FieldErrors(<<e_A, e_B, e_A>>)>>
    /\ last.ret.code = "InvalidArgument"
    /\ Len(last.ret.details) = 3
    /\ last.ret.details[2] = FieldViolation(<<"B">>, <<"Message B">>)

----------------------------------------------------------------------------
(* C21: the errors the grpc translation does not expect *)

\* C21: ValidationErrors and ValidationError return an Internal status with
\* the message "unexpected error type: " and the text of the error exactly
\* when the error, not nil, carries neither a FieldError nor a FieldErrors; an
\* error that carries a FieldError or a FieldErrors that is not empty is
\* translated to InvalidArgument by both.
C21_InternalOnlyForOtherErrors ==
    (last.op \in {"ValidationErrors", "ValidationError"} /\ last.args[1] # ErrNil) =>
        /\ (~As(last.args[1], "FieldError").ok /\ ~As(last.args[1], "FieldErrors").ok)
               <=> last.ret = Status("Internal", <<"unexpected error type: ">>
                                                     \o ErrorText(last.args[1]), <<>>)
        /\ Carried(last.args[1]) # <<>> => last.ret.code = "InvalidArgument"

----------------------------------------------------------------------------
(* One validator, configured and then used: AddRule and AddAlias calls on
   DefaultValidator, all of them before its first validation, then Field
   calls on it *)

\* " required" and "required, gte=2,lte=3": declarations with a space
d_space_required == <<" ">> \o s_required
d_required_space_gte_lte ==
    s_required \o <<",", " ">> \o s_gte \o <<"=", "2", ",">> \o s_lte \o <<"=", "3">>

MemoDeclarations ==
    {s_required, d_space_required, d_required_gte_lte, d_required_space_gte_lte,
     d_username, s_username, s_x}

MemoAliasDeclarations == {d_required_gte_lte, s_x}

\* no validation call has been made
Configuring == last.op \in {"none", "AddRule", "AddAlias"}

MemoNext ==
    \/ \E rule \in AddedRules : Configuring /\ CallAddRule("DefaultValidator", rule)
    \/ \E alias \in AliasNames, tags \in MemoAliasDeclarations :
           Configuring /\ CallAddAlias("DefaultValidator", alias, tags)
    \/ \E val \in FieldValues, field \in FieldNames, tags \in MemoDeclarations :
           CallField("DefaultValidator", val, field, tags)

MemoSpec == Init /\ [][MemoNext]_vars

----------------------------------------------------------------------------
(* C22: memoization *)

\* the declaration of the last Field call parsed afresh by its validator
ParsedAfresh == parseSpecs(validators[last.mv], splitUnescapedComma(last.tags))

\* C22: for one validator whose rules and aliases do not change after its
\* first validation, a Field call gets from mustParseTags, served from the
\* cache or not, the tags that parsing its declaration afresh gives, and so
\* the result of the rule chain over them; declarations that differ in
\* spaces are entries of their own.
C22_MemoizationIsTransparent ==
    last.op = "Field" =>
        IF ParsedAfresh.panic # NoPanic THEN last.panic = ParsedAfresh.panic
        ELSE /\ last.parsed = <<<<last.tags, ParsedAfresh.tags>>>>
             /\ last.tags \in DOMAIN tagCache
             /\ tagCache[last.tags] = ParsedAfresh.tags

----------------------------------------------------------------------------
(* Struct on a struct of one field, of every shape: exported or not, with or
   without a declaration, a scalar or a composite *)

\* F, f and the unexported name that begins with a two-byte character
ShapeNames == {<<"F">>, <<"f">>, <<c_eacute, "t", "a", "t">>}

ShapeTags == {<<>>, s_dash, s_required, s_optional}

ShapeScalars == {IntV(0), IntV(5), StringV(<<"a", "b">>), NilPtr, PtrV(IntV(0))}

\* values the walk goes into; each holds a struct { A int `validate:"required"` }
\* whose A is zero
ShapeComposites ==
    {sub(<<"A">>, 0), PtrV(sub(<<"A">>, 0)), SliceV(<<sub(<<"A">>, 0)>>),
     ArrayV(<<sub(<<"A">>, 0), sub(<<"A">>, 1)>>),
     MapV(<< <<StringV(<<"k">>), sub(<<"A">>, 0)>> >>)}

\* struct { <name> <type of val> `validate:"<tag>"` }
oneField(name, tag, val) == StructV(<<StructField(name, tag, val)>>)

ShapeValues ==
    {oneField(name, tag, val) :
        name \in ShapeNames, tag \in ShapeTags, val \in ShapeScalars \cup ShapeComposites}

ShapeNext == \E id \in ValidatorIds, value \in ShapeValues : CallStruct(id, PtrV(value))

ShapeSpec == Init /\ [][ShapeNext]_vars

----------------------------------------------------------------------------
(* C23: which fields are checked and which are recursed into *)

\* the last call was Struct on a struct of one field; the field
ShapeChecked == last.op = "Struct" /\ last.val.elem \in ShapeValues
ShapeField == last.val.elem.fields[1]

\* a checker was invoked for the field of this name
Invoked(name) == \E i \in 1..Len(last.invoked) : last.invoked[i].field = name

\* C23: every exported field whose value, dereferenced, is a struct, a
\* slice, an array or a map is recursed into, with a declaration other than
\* "-" or without one; a field with a declaration is checked against it, a
\* composite field too; a scalar field without a declaration yields no
\* failure; an unexported field is neither checked nor recursed into.
C23_CheckedAndRecursedInto ==
    ShapeChecked =>
        IF ShapeField.Name[1] \notin UpperLetters \/ ShapeField.Tag = s_dash
        THEN last.panic = NoPanic /\ last.err = ErrNil /\ last.invoked = <<>>
        ELSE /\ last.panic = NoPanic
             /\ Invoked(ShapeField.Name) <=> ShapeField.Tag # <<>>
             /\ Invoked(<<"A">>) <=> ShapeField.val \in ShapeComposites
             /\ (ShapeField.Tag = <<>> /\ ShapeField.val \in ShapeScalars) => last.err = ErrNil

----------------------------------------------------------------------------
(* Struct on values with nil pointers: the value itself, a field, elements
   of a slice, the key or the value of a map entry *)

\* the field F of these structs holds nil pointers and nothing else to walk into
NilHolders ==
    {NilPtr, SliceV(<<NilPtr, NilPtr>>), ArrayV(<<NilPtr>>),
     MapV(<< <<StringV(<<"k">>), NilPtr>> >>), MapV(<< <<NilPtr, IntV(0)>> >>)}

NilOnlyValues ==
    {NilPtr} \cup {PtrV(oneField(<<"F">>, tag, val)) : tag \in ShapeTags, val \in NilHolders}

\* a nil pointer next to a struct that fails
NilValues ==
    NilOnlyValues
        \cup {PtrV(oneField(<<"F">>, tag, SliceV(<<NilPtr, PtrV(sub(<<"A">>, a))>>))) :
                 tag \in ShapeTags, a \in {0, 1}}

NilNext == \E id \in ValidatorIds, value \in NilValues : CallStruct(id, value)

NilSpec == Init /\ [][NilNext]_vars

----------------------------------------------------------------------------
(* C24: nil pointers *)

\* the last call was Struct on a value whose pointers are all nil
NilOnlyChecked == last.op = "Struct" /\ last.val \in NilOnlyValues

NilFieldDeclared ==
    /\ last.val # NilPtr
    /\ last.val.elem.fields[1].val = NilPtr
    /\ last.val.elem.fields[1].Tag \notin {<<>>, s_dash}

----------------------------------------------------------------------------
(* Struct on a struct whose field F, without a declaration, is an
   interface{} or a slice of interface{} or of pointers *)

\* what the interface or the pointer holds
HeldScalars == {StringV(<<"a">>), IntV(5), BoolV(TRUE)}
HeldComposites ==
    {sub(<<"A">>, 0), PtrV(sub(<<"A">>, 0)), SliceV(<<sub(<<"A">>, 0)>>),
     MapV(<< <<StringV(<<"k">>), sub(<<"A">>, 0)>> >>)}

\* F interface{}, F []interface{}, F []*T, F map[string]interface{}
DeepFields ==
    UNION {{IfaceV(x), SliceV(<<IfaceV(x)>>), SliceV(<<PtrV(x)>>),
            MapV(<< <<StringV(<<"k">>), IfaceV(x)>> >>)} :
              x \in HeldScalars \cup HeldComposites}
        \cup {NilIface, SliceV(<<NilIface>>)}

DeepValues == {PtrV(oneField(<<"F">>, <<>>, val)) : val \in DeepFields}

DeepNext == \E id \in ValidatorIds, value \in DeepValues : CallStruct(id, value)

DeepSpec == Init /\ [][DeepNext]_vars

----------------------------------------------------------------------------
(* C25: deep validation of interfaces and pointers *)

\* the value the field F of the last call holds, at the end of its
\* interfaces, pointers and one-element collections of them
RECURSIVE Held(_)
Held(v) ==
    IF v.kind \in {"interface", "ptr"} /\ ~v.isNil THEN Held(v.elem)
    ELSE IF v.kind = "slice" /\ v.elems # <<>> /\ v.elems[1].kind \in {"interface", "ptr"}
    THEN Held(v.elems[1])
    ELSE IF v.kind = "map" /\ v.elems[1][2].kind = "interface" THEN Held(v.elems[1][2])
    ELSE v

\* C25: deep validation recurses into a struct, a slice, an array or a map,
\* or a pointer or interface that holds one, each by its kind: an interface
\* field or element that holds a scalar yields no failure and no panic, one
\* that holds a slice or a map is validated as a collection; deep validation
\* never panics on these values.
C25_DeepValidationByKind ==
    (last.op = "Struct" /\ last.val \in DeepValues) =>
        /\ last.panic = NoPanic
        /\ Held(last.val.elem.fields[1].val) \in HeldScalars => last.err = ErrNil
        /\ Held(last.val.elem.fields[1].val).kind \in {"struct", "slice", "map"}
               => Invoked(<<"A">>)

----------------------------------------------------------------------------
(* Struct on nested structs reached directly, through pointers, and through
   pointers held in a slice, an array, a map or an interface *)

\* struct { A int `validate:"required"`; Sub <type of val> }, A zero
nested(val) ==
    StructV(<<StructField(<<"A">>, s_required, IntV(0)),
              StructField(<<"S", "u", "b">>, <<>>, val)>>)

\* the ways the nested struct is held by the field Sub
Holders(x) ==
    {x, PtrV(x), IfaceV(x), IfaceV(PtrV(x)), SliceV(<<x>>), SliceV(<<PtrV(x)>>),
     ArrayV(<<PtrV(x)>>), MapV(<< <<StringV(<<"k">>), x>> >>),
     MapV(<< <<StringV(<<"k">>), PtrV(x)>> >>)}

\* two levels: Sub holds a struct whose Sub holds a struct, or a scalar
PrefixValues ==
    {PtrV(nested(h)) : h \in UNION {Holders(nested(g)) :
                                        g \in {IntV(0)} \cup Holders(sub(<<"A">>, 0))}}

PrefixNext == \E id \in ValidatorIds, value \in PrefixValues : CallStruct(id, value)

PrefixSpec == Init /\ [][PrefixNext]_vars

----------------------------------------------------------------------------
(* C26: one prefix per nesting level *)

\* the number of times the name occurs in the path, a name being followed by
\* "." or by the "[" of an index or key
RECURSIVE Occurrences(_, _)
Occurrences(name, path) ==
    IF Len(path) < Len(name) THEN 0
    ELSE (IF SubSeq(path, 1, Len(name)) = name THEN 1 ELSE 0)
         + Occurrences(name, Tail(path))

\* the number of structs on the way from the value to its innermost struct
RECURSIVE Depth(_)
Depth(v) ==
    CASE v.kind \in {"ptr", "interface"} -> Depth(v.elem)
      [] v.kind \in {"slice", "array"} -> Depth(v.elems[1])
      [] v.kind = "map" -> Depth(v.elems[1][2])
      [] v.kind = "struct" ->
            IF Len(v.fields) > 1 THEN 1 + Depth(v.fields[2].val) ELSE 1
      [] OTHER -> 0

\* C26: with the full error path the prefix "parent." is applied once per
\* nesting level: in the path of a nested failure each containing field name
\* occurs once, also when the nested struct is reached through a pointer held
\* in a slice, an array, a map or an interface; without the full error path,
\* and at the root, no prefix is applied.
C26_OnePrefixPerLevel ==
    (last.op = "Struct" /\ last.val \in PrefixValues) =>
        /\ last.panic = NoPanic
        /\ Len(last.err.errs) = Depth(last.val)
        /\ \A i \in 1..Len(last.err.errs) :
               Occurrences(<<"S", "u", "b">>, last.err.errs[i].Field)
                   = (IF last.mv = "v" THEN i - 1 ELSE 0)

-----------------------------------------------------------------------------
(* Struct on a struct whose field F is a slice or an array of structs *)

\* the elements: struct { A int `validate:"required"` } with A zero or not,
\* and a pointer to one
CollElems == {sub(<<"A">>, 0), sub(<<"A">>, 1), PtrV(sub(<<"A">>, 0))}

\* &struct { F []T }{...} and &struct { F [n]T }{...}, of one to three elements
CollValues ==
    {PtrV(StructV(<<StructField(<<"F">>, <<>>, c)>>)) :
        c \in UNION {{SliceV(es), ArrayV(es)} : es \in SeqsUpTo(CollElems, 3) \ {<<>>}}}

CollNext == \E id \in ValidatorIds, value \in CollValues : CallStruct(id, value)

CollSpec == Init /\ [][CollNext]_vars

\* the elements of the field F of the value
ElemsOfF(v) == v.elem.fields[1].val.elems

\* the element fails: its A is zero
FailsA(e) == Deref(e).fields[1].val.n = 0

\* the paths of the failures of the last call
PathsOf(err) ==
    IF err.type = "FieldErrors" THEN {err.errs[k].Field : k \in 1..Len(err.errs)} ELSE {}

\* C27: Struct recurses into every element of a slice or array field F, and
\* with the full error path the failure of A in element i is reported under
\* F[i].A, i written in decimal, so that different elements give different paths.
C27_ElementPathHasDecimalIndex ==
    (last.op = "Struct" /\ last.val \in CollValues /\ last.mv = "v") =>
        /\ last.panic = NoPanic
        /\ \A i \in 0..(Len(ElemsOfF(last.val)) - 1) :
               FailsA(ElemsOfF(last.val)[i + 1])
                   <=> (<<"F", "[", ToString(i), "]", ".", "A">> \in PathsOf(last.err))

-----------------------------------------------------------------------------
(* Struct on a struct whose field F is a map *)

\* a key struct { A int `validate:"required"`; B int }
keyStruct(a, b) ==
    StructV(<<StructField(<<"A">>, s_required, IntV(a)), StructField(<<"B">>, <<>>, IntV(b))>>)

\* the keys of one map, by key type: structs, two of them failing, or strings
MapKeySets ==
    {{keyStruct(0, 1), keyStruct(0, 2), keyStruct(1, 1)},
     {StringV(<<"k">>), StringV(<<"m">>)}}

\* the values of one map, by value type: T or *T
MapValueSets ==
    {{sub(<<"A">>, 0), sub(<<"A">>, 1)},
     {PtrV(sub(<<"A">>, 0)), PtrV(sub(<<"A">>, 1))}}

\* the entries of a map of one or two keys, in every order MapKeys can give
MapEntryLists ==
    UNION {{es \in SeqsUpTo(K \X V, 2) :
               /\ es # <<>>
               /\ \A i, j \in 1..Len(es) : es[i][1] = es[j][1] => i = j} :
           K \in MapKeySets, V \in MapValueSets}

\* struct { A int `validate:"required"`; F map[K]V; Z int `validate:"required"` }
mapStruct(es) == StructV(<<
    StructField(<<"A">>, s_required, IntV(0)),
    StructField(<<"F">>, <<>>, MapV(es)),
    StructField(<<"Z">>, s_required, IntV(0))>>)

MapValues == {PtrV(mapStruct(es)) : es \in MapEntryLists}

MapNext == \E id \in ValidatorIds, value \in MapValues : CallStruct(id, value)

MapSpec == Init /\ [][MapNext]_vars

----------------------------------------------------------------------------
(* C28: every key and every value, whatever the iteration order *)

\* the entries of the field F of the value
EntriesOfF(v) == v.elem.fields[2].val.elems

\* the same map iterated in every order
Reorderings(es) ==
    {[i \in 1..Len(es) |-> es[p[i]]] : p \in Permutations(1..Len(es))}

\* the two lists hold the same failures the same number of times
Count(e, errs) == Cardinality({k \in 1..Len(errs) : errs[k] = e})
SameMultiset(a, b) ==
    /\ Len(a) = Len(b)
    /\ \A k \in 1..Len(a) : Count(a[k], a) = Count(a[k], b)

StartsWith(path, pre) == Len(path) >= Len(pre) /\ SubSeq(path, 1, Len(pre)) = pre

\* the key or the value is a struct whose required A is zero
FailsRequired(e) == Deref(e).kind = "struct" /\ FailsA(e)

\* the name validateMap gives the key or the value of the entry
EntryName(e, part) == <<"F", "[">> \o FormatKey(e[1]) \o <<"]", part>>

\* the failures reported under the name
Under(errs, pre) == {k \in 1..Len(errs) : StartsWith(errs[k].Field, pre)}

\* C28: for a map field F, Struct deep-validates every key and every value
\* on their own, under F[key](key) and F[key](value) with the full error path,
\* and returns the same multiset of failures for every iteration order of the
\* keys; the failures of the fields around the map keep their places.
C28_MapOrderIndependent ==
    (last.op = "Struct" /\ last.val \in MapValues) =>
        Let(EntriesOfF(last.val), LAMBDA es :
        Let(last.err.errs, LAMBDA errs :
            /\ last.panic = NoPanic
            /\ errs[1].Field = <<"A">>
            /\ errs[Len(errs)].Field = <<"Z">>
            /\ Len(errs) = 2 + Cardinality({i \in 1..Len(es) : FailsRequired(es[i][1])})
                             + Cardinality({i \in 1..Len(es) : FailsRequired(es[i][2])})
            /\ last.mv = "v" =>
                   \A i \in 1..Len(es) :
                       /\ Cardinality(Under(errs, EntryName(es[i], "(key)")))
                              = (IF FailsRequired(es[i][1]) THEN 1 ELSE 0)
                       /\ Cardinality(Under(errs, EntryName(es[i], "(value)")))
                              = (IF FailsRequired(es[i][2]) THEN 1 ELSE 0)
            /\ \A other \in Reorderings(es) :
                   SameMultiset(errs,
                       Struct(validators[last.mv], PtrV(mapStruct(other)),
                              Env(tagCache)).err.errs)))

\* a map of two entries whose two keys and two values all fail, with the full
\* error path
C28_Witness ==
    /\ last.op = "Struct"
    /\ last.val \in MapValues
    /\ last.mv = "v"
    /\ Len(EntriesOfF(last.val)) = 2
    /\ Len(last.err.errs) = 6

-----------------------------------------------------------------------------
(* The tag parser on declarations of commas, backslashes and blanks *)

d_gte_1 == <<"g", "t", "e", "=", "1">>

\* what the declarations are made of
DeclParts == {d_gte_1, <<",">>, <<"\\">>, <<" ">>}

MaxParts == 4

RECURSIVE Concat(_)
Concat(parts) == IF parts = <<>> THEN <<>> ELSE Head(parts) \o Concat(Tail(parts))

ParseDeclarations == {Concat(parts) : parts \in SeqsUpTo(DeclParts, MaxParts)}

\* splitUnescapedComma(str)
CallSplitUnescapedComma(str) ==
    /\ last.op = "none"
    /\ last' = [op |-> "splitUnescapedComma", tags |-> str,
                pieces |-> splitUnescapedComma(str)]
    /\ calls' = calls + 1
    /\ UNCHANGED <<validators, tagCache, inflight, result>>

\* mv.mustParseTags(t)
CallMustParseTags(id, t) ==
    /\ last.op = "none"
    /\ \E r \in {mustParseTags(validators[id], t, Env(tagCache))} :
           /\ tagCache' = r.env.cache
           /\ last' = [op |-> "mustParseTags", mv |-> id, tags |-> t,
                       parsed |-> r.tags, panic |-> r.env.panic]
    /\ calls' = calls + 1
    /\ UNCHANGED <<validators, inflight, result>>

ParseNext ==
    \/ \E str \in ParseDeclarations : CallSplitUnescapedComma(str)
    \/ \E id \in ValidatorIds, t \in ParseDeclarations : CallMustParseTags(id, t)

ParseSpec == Init /\ [][ParseNext]_vars

----------------------------------------------------------------------------
(* C29: the declaration is split at its unescaped commas *)

\* the number of backslashes that end at index p of str
RECURSIVE BackslashesBefore(_, _)
BackslashesBefore(str, p) ==
    IF p >= 1 /\ str[p] = "\\" THEN 1 + BackslashesBefore(str, p - 1) ELSE 0

\* the commas of str preceded by an even number of backslashes
UnescapedCommas(str) ==
    {i \in 1..Len(str) : str[i] = "," /\ BackslashesBefore(str, i - 1) % 2 = 0}

\* str cut at the indexes of at, from index from on
RECURSIVE CutAt(_, _, _)
CutAt(str, at, from) ==
    IF \A i \in at : i < from THEN <<SubSeq(str, from, Len(str))>>
    ELSE Let(Min({i \in at : i >= from}), LAMBDA c :
             <<SubSeq(str, from, c - 1)>> \o CutAt(str, at, c + 1))

\* the name and the param a spec declares
SpecName(piece) == Trim(SplitN2(ReplaceEscapedComma(piece))[1])
SpecParam(piece) ==
    Let(SplitN2(ReplaceEscapedComma(piece)), LAMBDA v :
        IF Len(v) > 1 THEN Trim(v[2]) ELSE <<>>)

\* C29: the tag parser splits a declaration at every comma preceded by an even
\* number of backslashes and at no other, so k unescaped commas give k + 1
\* specs, adjacent and leading commas included; a spec whose name is empty
\* after trimming is a fatal parse error, and \, in a param is a comma.
C29_SplitAtEveryUnescapedComma ==
    /\ last.op = "splitUnescapedComma" =>
           /\ Len(last.pieces) = Cardinality(UnescapedCommas(last.tags)) + 1
           /\ last.pieces = CutAt(last.tags, UnescapedCommas(last.tags), 1)
    /\ last.op = "mustParseTags" =>
           Let(CutAt(last.tags, UnescapedCommas(last.tags), 1), LAMBDA specs :
               /\ (\E i \in 1..Len(specs) : SpecName(specs[i]) = <<>>)
                      => last.panic # NoPanic
               /\ last.panic = NoPanic =>
                      /\ Len(last.parsed) = Len(specs)
                      /\ \A i \in 1..Len(specs) :
                             last.parsed[i].Param = SpecParam(specs[i]))

-----------------------------------------------------------------------------
(* Struct step by step on a value graph that may hold pointer cycles *)

\* type Node struct {
\*     Next  *Node
\*     Skip  *Node `validate:"-"`
\*     priv  *Node
\*     Items []*Node
\* }
\* the fields in declaration order, each with the cell of the node it reads
NodeFields == <<
    [Name |-> <<"N", "e", "x", "t">>, Tag |-> <<>>, kind |-> "ptr", cell |-> "Next"],
    [Name |-> <<"S", "k", "i", "p">>, Tag |-> s_dash, kind |-> "ptr", cell |-> "Skip"],
    [Name |-> <<"p", "r", "i", "v">>, Tag |-> <<>>, kind |-> "ptr", cell |-> "priv"],
    [Name |-> <<"I", "t", "e", "m", "s">>, Tag |-> <<>>, kind |-> "slice", cell |-> "Items"]>>

\* the addresses of the nodes; 0 is the nil pointer
Addrs == {1, 2}
Pointers == {0} \cup Addrs

\* the heaps: every node holds a pointer in Next, Skip and priv, and in Items
\* a slice that is empty (0) or holds one pointer
Heaps == [Addrs -> [Next : Pointers, Skip : Pointers, priv : Pointers, Items : Pointers]]

\* the elements of a slice
ItemsOf(p) == IF p = 0 THEN <<>> ELSE <<p>>

\* the deepest call stack the run-time gives a goroutine, in frames of the walk
MaxDepth == 10

\* the activation records of the walk
StructFrame(isPtr, a) ==
    [fn |-> "validateStruct", ptr |-> isPtr, node |-> a, i |-> 0]
FieldsFrame(a) == [fn |-> "validateStructFields", ptr |-> FALSE, node |-> a, i |-> 1]
CollectionFrame(a) == [fn |-> "validateCollection", ptr |-> FALSE, node |-> a, i |-> 0]

\* the field loop were it to continue on names only
ContinuesOnNameOnly(f) == ~IsPublic(f.Name)

\* "continue" on a field: the name is not public or the tag is "-"
Continues(f) == ~IsPublic(f.Name) \/ f.Tag = s_dash

\* the top frame moves on to its next position
Advance(w) == [w EXCEPT !.stack[Len(w.stack)].i = @ + 1]

\* the top frame returns to its caller; the call Struct returns with the last
Return(w) ==
    IF Len(w.stack) = 1 THEN [w EXCEPT !.pc = "returned", !.stack = <<>>]
    ELSE [w EXCEPT !.stack = SubSeq(@, 1, Len(@) - 1)]

\* the number of structs whose fields are being validated
StructFrames(stack) ==
    Cardinality({k \in 1..Len(stack) : stack[k].fn = "validateStructFields"})

\* the top frame moves on and calls: a frame is pushed, or the stack is
\* exhausted and the run-time ends the program
Call(w, frame) ==
    IF Len(w.stack) = MaxDepth THEN [w EXCEPT !.pc = "overflow"]
    ELSE Let(Append(Advance(w).stack, frame), LAMBDA st :
             [w EXCEPT !.stack = st,
                       !.deepest = IF StructFrames(st) > @ THEN StructFrames(st) ELSE @])

\* one step of the goroutine inside Struct, by the frame on top of its stack:
\*   validateStruct on a pointer calls itself on the pointee, and on a struct
\*     calls validateStructFields; both return when the call is back;
\*   validateStructFields continues on a field that is not public or is
\*     declared "-", follows the pointer of a pointer field, and calls
\*     deepValidateTaglessField, which returns on a nil pointer, calls
\*     validateStruct on a struct and validateCollection on a slice;
\*   validateCollection calls deepValidateTaglessField on each element, which
\*     calls validateStruct on the pointer the element is.
WalkStep(w) ==
    Let(w.stack[Len(w.stack)], LAMBDA top :
        CASE top.fn = "validateStruct" ->
                 IF top.i > 0 THEN Return(w)
                 ELSE IF top.ptr THEN Call(w, StructFrame(FALSE, top.node))
                 ELSE Call(w, FieldsFrame(top.node))
          [] top.fn = "validateStructFields" ->
                 IF top.i > Len(NodeFields) THEN Return(w)
                 ELSE Let(NodeFields[top.i], LAMBDA f :
                      Let(w.heap[top.node][f.cell], LAMBDA p :
                          IF Continues(f) THEN Advance(w)
                          ELSE IF f.kind = "slice" THEN Call(w, CollectionFrame(top.node))
                          ELSE IF p = 0 THEN Advance(w)
                          ELSE Call(w, StructFrame(FALSE, p))))
          [] top.fn = "validateCollection" ->
                 Let(ItemsOf(w.heap[top.node].Items), LAMBDA elems :
                     IF top.i >= Len(elems) THEN Return(w)
                     ELSE Call(w, StructFrame(TRUE, elems[top.i + 1]))))

\* go mv.Struct(&heap[1]): the goroutine enters Struct
EnterStruct(g, heap) ==
    /\ calls = 0
    /\ Quiet
    /\ inflight' = [inflight EXCEPT ![g] =
                       [pc |-> "Struct", heap |-> heap,
                        stack |-> <<StructFrame(TRUE, 1)>>, deepest |-> 0]]
    /\ calls' = calls + 1
    /\ UNCHANGED <<validators, tagCache, last, result>>

\* the goroutine takes its next step inside Struct
StepStruct(g) ==
    /\ inflight[g].pc = "Struct"
    /\ inflight' = [inflight EXCEPT ![g] = WalkStep(@)]
    /\ UNCHANGED <<validators, tagCache, last, calls, result>>

WalkNext ==
    \/ \E heap \in Heaps : EnterStruct("g1", heap)
    \/ StepStruct("g1")

WalkSpec == Init /\ [][WalkNext]_vars

\* a goroutine inside Struct keeps running
FairWalkSpec == WalkSpec /\ WF_vars(StepStruct("g1"))

----------------------------------------------------------------------------
(* C30: Struct terminates exactly on the acyclic value graphs *)

\* the nodes the walk goes to from node a: through the exported fields not
\* declared "-", Next and the elements of Items
Traversed(heap, a) == {heap[a].Next, heap[a].Items} \ {0}

\* the nodes reached from the nodes of S in one step or more
RECURSIVE ReachedFrom(_, _, _)
ReachedFrom(heap, S, n) ==
    Let(UNION {Traversed(heap, a) : a \in S}, LAMBDA next :
        IF n = 0 THEN next ELSE next \cup ReachedFrom(heap, next, n - 1))

\* the traversed part of the graph holds a cycle
Cyclic(heap) ==
    \E a \in {1} \cup ReachedFrom(heap, {1}, Cardinality(Addrs)) :
        a \in ReachedFrom(heap, {a}, Cardinality(Addrs))

\* the nesting depth of node a in an acyclic graph: the structs on the longest
\* way down from it
RECURSIVE NestingDepth(_, _)
NestingDepth(heap, a) ==
    Let({NestingDepth(heap, b) : b \in Traversed(heap, a)}, LAMBDA below :
        1 + (IF below = {} THEN 0 ELSE CHOOSE d \in below : \A e \in below : e <= d))

Walker == inflight["g1"]
Walking == Walker.pc = "Struct"

\* C30: Struct terminates on a finite value exactly when the part of the
\* value graph it traverses is acyclic, and then with a recursion depth equal
\* to the nesting depth; on a traversed pointer cycle it recurses without
\* bound, until the stack is exhausted.
C30_TerminatesExactlyOnAcyclic ==
    /\ [](Walker.pc \in {"Struct", "returned"} /\ ~Cyclic(Walker.heap)
            => StructFrames(Walker.stack) <= NestingDepth(Walker.heap, 1))
    /\ [](Walker.pc = "returned"
            => ~Cyclic(Walker.heap) /\ Walker.deepest = NestingDepth(Walker.heap, 1))
    /\ [](Walker.pc = "overflow" => Cyclic(Walker.heap))
    /\ (Walking /\ ~Cyclic(Walker.heap)) ~> (Walker.pc = "returned")
    /\ (Walking /\ Cyclic(Walker.heap)) ~> (Walker.pc = "overflow")

\* the stack is exhausted on two nodes that point at each other, one through
\* its field Next and one through an element of Items
C30_Witness ==
    /\ Walker.pc = "overflow"
    /\ Walker.heap[1].Next = 2
    /\ Walker.heap[2].Items = 1
    /\ Walker.heap[1].Items = 0
    /\ Walker.heap[2].Next = 0

====
